---- MODULE Spec2Model ----
(***************************************************************************)
(* Model of the document chunking engine of File_read_system               *)
(* (src/app/vectorization/chunking.py).                                    *)
(*                                                                         *)
(* A text is a sequence of characters; a character is a one-element        *)
(* string.  Characters outside ASCII are written by their code point       *)
(* ("U4E2D" is a CJK ideograph, "U3002" the ideographic full stop).        *)
(* One call of chunk_text is one behaviour: Init draws the arguments of    *)
(* the call, the actions are the strategies the dispatcher runs, and the   *)
(* calls to the injected AI client are the points where the environment    *)
(* chooses a response or an exception.                                     *)
(***************************************************************************)
EXTENDS Integers, Sequences, FiniteSets, TLC

VARIABLES
    text,                     \* argument text
    enable_chunking,          \* argument enable_chunking
    chunking_strategy_value,  \* argument chunking_strategy_value
    chunk_size,               \* argument chunk_size
    chunk_overlap,            \* argument chunk_overlap
    chunking_config,          \* argument chunking_config (the keys the strategies read)
    segments,                 \* the pieces the caller joined into text (input of the delimiter tests)
    pc,                       \* position of the call: "call", "batches", "returned", "raised"
    chunks,                   \* returned "chunks" list
    derivatives,              \* returned "derivatives" list
    embed_calls,              \* number of embed_texts calls issued
    embed_log,                \* per embed_texts call, what the client answered
    chat_calls,               \* number of chat_invoke calls issued
    sentence_batches,         \* level5: the batches of sentences
    batch_results,            \* level5: per batch, the chunks _merge_chunks_with_llm returned
    chat_log,                 \* level5: per chat call, the batch it was for and the response
    all_chunks,               \* level5: the accumulated chunk list
    other_call,               \* the locals of a second call of chunk_text while this one runs
    loop_start,               \* _windowed: the local start of the loop
    tasks,                    \* the task documents of the temp directory, by task id
    handlers,                 \* the request handlers and jobs in flight, in order of arrival
    _queue_lock,              \* file_process._queue_lock: locked flag and waiting handlers
    started                   \* the start_job executions in the order they began

vars == <<text, enable_chunking, chunking_strategy_value, chunk_size, chunk_overlap,
          chunking_config, segments, pc, chunks, derivatives, embed_calls, embed_log,
          chat_calls, sentence_batches, batch_results, chat_log, all_chunks, other_call,
          loop_start, tasks, handlers, _queue_lock, started>>

----------------------------------------------------------------------------
(* Bounds of the model *)

MaxTextLen == 5      \* longest text of the windowing specification
MaxChunkSize == 4    \* largest chunk_size of the windowing specification
MaxOverlap == 3      \* largest chunk_overlap of the windowing specification
MaxSegments == 2     \* most segments joined into a text of the delimiter specification
MaxSegmentLen == 2   \* longest segment of the delimiter specification
MaxLines == 5        \* most lines of a text of the table specification
MaxSentenceText == 4 \* longest text of the semantic specification
MaxAgenticText == 6  \* longest text of the agentic specification
MaxDispatchText == 3 \* longest text of the dispatcher specification
MaxCodeLines == 2 \* most lines in the body of a fenced code block
MaxRepackSentences == 4 \* most sentences of a semantic chunk re-packed on its own
MaxRepackSize == 4 \* largest target size of the re-packing on its own
MaxWindowedText == 5 \* longest text given to the window function on its own
MaxWindowedSize == 3 \* largest size given to the window function on its own
MaxFragments == 2 \* most fragments given to the packer on its own
MaxFragmentLen == 3 \* longest fragment given to the packer on its own
MaxPackSize == 3 \* largest size given to the packer on its own
MaxSeparatorText == 4 \* longest text given to the separator splitter on its own
MaxInterleavedText == 2 \* longest text of a call of the interleaving specification
MaxMarkdownChunkSize == 20 \* largest chunk_size of the Markdown specification
MaxMarkdownLines == 3 \* most lines of a text of the Markdown lines specification
MaxStepText == 6 \* longest text of the window loop taken step by step
MaxStepSize == 3 \* largest size of the window loop taken step by step
MaxRequests == 3 \* most requests the service receives
MaxJobs == 1 \* most start_job calls of the task manager specification
MaxConcurrentJobs == 2 \* most start_job calls running on one task at the same time
max_concurrent_tasks == 2 \* TaskManager._max_concurrent_tasks, 10 in the code, scaled down
MaxAutoText == 3     \* longest text of the pair of an "auto" and a semantic call

\* The token budget of a batch.  level5_agentic_splitting passes
\* max_tokens=8000; the model scales the budget down so that a text of a few
\* characters already fills more than one batch.
AgenticMaxTokens == 3

\* The chunk count above which level5_agentic_splitting reassembles and
\* re-splits everything.  The code compares with 100; the model scales the
\* count down so that a response of a few elements already exceeds it.
MaxAgenticChunks == 3

----------------------------------------------------------------------------
(* Python built-ins on strings and lists *)

Min(a, b) == IF a <= b THEN a ELSE b
Max(a, b) == IF a >= b THEN a ELSE b

\* every sequence over S of length at most n
SeqsUpTo(S, n) == UNION {[1..k -> S] : k \in 0..n}

\* s[a:b] for 0 <= a
Slice(s, a, b) == SubSeq(s, a + 1, Min(b, Len(s)))

\* s[-k:] for k > 0
Tail_k(s, k) == SubSeq(s, Max(1, Len(s) - k + 1), Len(s))

\* "".join(parts)
RECURSIVE Concat(_)
Concat(parts) == IF parts = <<>> THEN <<>> ELSE Head(parts) \o Concat(Tail(parts))

\* sep.join(parts)
RECURSIVE Join(_, _)
Join(parts, sep) ==
    IF parts = <<>> THEN <<>>
    ELSE IF Len(parts) = 1 THEN parts[1]
    ELSE parts[1] \o sep \o Join(Tail(parts), sep)

\* t.startswith(d, i) with i counted from 1
MatchAt(t, d, i) == /\ i + Len(d) - 1 <= Len(t)
                    /\ SubSeq(t, i, i + Len(d) - 1) = d

\* d in t
Contains(t, d) == \E i \in 1..(Len(t) + 1) : MatchAt(t, d, i)

\* the characters str.strip() and \s remove
Whitespace == {" ", "\n", "\t", "\r", "\f"}

RECURSIVE LStrip(_)
LStrip(s) == IF s # <<>> /\ Head(s) \in Whitespace THEN LStrip(Tail(s)) ELSE s

RECURSIVE RStrip(_)
RStrip(s) == IF s # <<>> /\ s[Len(s)] \in Whitespace THEN RStrip(SubSeq(s, 1, Len(s) - 1)) ELSE s

\* s.strip()
Strip(s) == RStrip(LStrip(s))

\* t.split(d) for a non-empty d: leftmost, non-overlapping occurrences
RECURSIVE SplitFrom(_, _, _, _)
SplitFrom(t, d, i, cur) ==
    IF i > Len(t) THEN <<cur>>
    ELSE IF MatchAt(t, d, i) THEN <<cur>> \o SplitFrom(t, d, i + Len(d), <<>>)
    ELSE SplitFrom(t, d, i + 1, Append(cur, t[i]))

Split(t, d) == SplitFrom(t, d, 1, <<>>)

----------------------------------------------------------------------------
(* Common utilities: windowing and packing *)

RECURSIVE windowed_loop(_, _, _, _, _)
windowed_loop(t, size, overlap, start, acc) ==
    IF start < Len(t)
    THEN LET end == Min(Len(t), start + size)
             out == Append(acc, Slice(t, start, end))
         IN  IF end >= Len(t) THEN out
             ELSE windowed_loop(t, size, overlap, end - overlap, out)
    ELSE acc

\* _windowed with an overlap that is not smaller than size dropped to no
\* overlap at all
_windowed_overlap_dropped(t, size, overlap) ==
    IF size <= 0 THEN <<t>>
    ELSE LET ov == IF overlap >= size THEN 0 ELSE overlap
         IN  windowed_loop(t, size, ov, 0, <<>>)

_windowed(t, size, overlap) ==
    IF size <= 0 THEN <<t>>
    ELSE LET ov == IF overlap >= size THEN Max(0, size - 1) ELSE overlap
         IN  windowed_loop(t, size, ov, 0, <<>>)

_windowed_no_overlap(t, size) ==
    IF size <= 0 THEN <<t>>
    ELSE windowed_loop(t, size, 0, 0, <<>>)

\* the alternatives of the union regex: the non-empty separators, in order
Pattern(separators) == SelectSeq(separators, LAMBDA sep : sep # <<>>)

\* the first alternative of the pattern that matches at position i, or <<>>
RECURSIVE FirstMatch(_, _, _)
FirstMatch(t, pattern, i) ==
    IF pattern = <<>> THEN <<>>
    ELSE IF MatchAt(t, Head(pattern), i) THEN Head(pattern)
    ELSE FirstMatch(t, Tail(pattern), i)

\* re.split("(pattern)", t): text parts and the captured delimiters, alternating
RECURSIVE ReSplit(_, _, _, _)
ReSplit(t, pattern, i, cur) ==
    IF i > Len(t) THEN <<cur>>
    ELSE LET m == FirstMatch(t, pattern, i)
         IN  IF m # <<>> THEN <<cur, m>> \o ReSplit(t, pattern, i + Len(m), <<>>)
             ELSE ReSplit(t, pattern, i + 1, Append(cur, t[i]))

\* re.fullmatch(pattern, part)
FullMatch(pattern, part) == \E k \in 1..Len(pattern) : pattern[k] = part

\* the loop of _split_on_separators over the parts: st = [merged, buffer]
RECURSIVE MergeParts(_, _, _, _)
MergeParts(parts, pattern, keep_delimiters, st) ==
    IF parts = <<>> THEN st
    ELSE LET part == Head(parts)
             nxt == IF FullMatch(pattern, part)
                    THEN IF keep_delimiters
                         THEN [st EXCEPT !.buffer = st.buffer \o part]
                         ELSE st
                    ELSE IF st.buffer # <<>> /\ keep_delimiters
                         THEN [merged |-> Append(st.merged, part \o st.buffer),
                               buffer |-> <<>>]
                         ELSE IF part # <<>>
                              THEN [st EXCEPT !.merged = Append(st.merged, part)]
                              ELSE st
         IN  MergeParts(Tail(parts), pattern, keep_delimiters, nxt)

_split_on_separators(t, separators, keep_delimiters) ==
    IF separators = <<>> THEN <<t>>
    ELSE LET pattern == Pattern(separators)
         IN  IF pattern = <<>> THEN <<t>>
             ELSE LET parts == ReSplit(t, pattern, 1, <<>>)
                      st == MergeParts(parts, pattern, keep_delimiters,
                                       [merged |-> <<>>, buffer |-> <<>>])
                      merged == IF st.buffer # <<>> /\ keep_delimiters
                                THEN Append(st.merged, st.buffer)
                                ELSE st.merged
                  IN  SelectSeq(merged, LAMBDA p : p # <<>>)

\* Flush with the overlapping window in every case, one character of overlap
\* when none was asked for
Flush_overlapping_window(buf, size, overlap) ==
    _windowed(Concat(buf), size, Max(1, overlap))

\* the flush of _by_max_tokens: window the joined buffer
Flush(buf, size, overlap) ==
    IF overlap > 0 THEN _windowed(Concat(buf), size, overlap)
    ELSE _windowed_no_overlap(Concat(buf), size)

\* the loop of _by_max_tokens: st = [chunks, buf, token_count]
RECURSIVE PackLoop(_, _, _, _)
PackLoop(texts, size, overlap, st) ==
    IF texts = <<>> THEN st
    ELSE LET part == Head(texts)
             length == Len(part)
             flushed ==
                 IF st.token_count + length > size /\ st.buf # <<>>
                 THEN LET cs == st.chunks \o Flush(st.buf, size, overlap)
                      IN  IF overlap > 0 /\ cs # <<>>
                          THEN LET tail == Tail_k(cs[Len(cs)], overlap)
                               IN  [chunks |-> cs, buf |-> <<tail>>, token_count |-> Len(tail)]
                          ELSE [chunks |-> cs, buf |-> <<>>, token_count |-> 0]
                 ELSE st
             nxt == [chunks |-> flushed.chunks,
                     buf |-> Append(flushed.buf, part),
                     token_count |-> flushed.token_count + length]
         IN  PackLoop(Tail(texts), size, overlap, nxt)

_by_max_tokens(texts, size, overlap) ==
    LET st == PackLoop(texts, size, overlap,
                       [chunks |-> <<>>, buf |-> <<>>, token_count |-> 0])
    IN  IF st.buf # <<>> THEN st.chunks \o Flush(st.buf, size, overlap)
        ELSE st.chunks

----------------------------------------------------------------------------
(* Interfaces, level 1 and level 2 *)

\* ChunkingConfig.separators default
DefaultSeparators == << <<"\n", "\n">>, <<"\n">>, <<",", " ">>, <<" ">> >>

ChunkingConfig(size, overlap) ==
    [chunk_size |-> size, chunk_overlap |-> overlap, separators |-> DefaultSeparators]

level1_character_splitting(t, cfg) == _windowed(t, cfg.chunk_size, cfg.chunk_overlap)

level2_recursive_character_splitting(t, cfg) ==
    LET keep_delimiters == cfg.chunk_overlap > 0
        parts == _split_on_separators(t, cfg.separators, keep_delimiters)
    IN  _by_max_tokens(parts, cfg.chunk_size, cfg.chunk_overlap)

----------------------------------------------------------------------------
(* Custom-delimiter splitting: escape handling *)

\* the UTF-8 bytes of a character outside ASCII, each read back as Latin-1
Utf8AsLatin1(c) ==
    IF c = "U3002" THEN <<"xE3", "x80", "x82">>
    ELSE IF c = "U4E2D" THEN <<"xE4", "xB8", "xAD">>
    ELSE <<c>>

\* the escapes of one letter the unicode_escape codec replaces
SimpleEscapes == {"n", "t", "r", "\\", "'", "\"", "a", "b", "f", "v"}

EscapeValue(c) ==
    CASE c = "n" -> "\n"
      [] c = "t" -> "\t"
      [] c = "r" -> "\r"
      [] c = "f" -> "\f"
      [] c = "a" -> "x07"
      [] c = "b" -> "x08"
      [] c = "v" -> "x0B"
      [] OTHER -> c

\* escapes that need hexadecimal digits or a name after them; no delimiter of
\* the model supplies those, so the codec raises on them
IncompleteEscapes == {"x", "u", "U", "N"}

\* delimiter.encode().decode('unicode_escape') from position i on
RECURSIVE UnicodeEscapeFrom(_, _)
UnicodeEscapeFrom(d, i) ==
    IF i > Len(d) THEN [raised |-> FALSE, value |-> <<>>]
    ELSE IF d[i] # "\\"
         THEN LET rest == UnicodeEscapeFrom(d, i + 1)
              IN  [raised |-> rest.raised, value |-> Utf8AsLatin1(d[i]) \o rest.value]
    ELSE IF i = Len(d) \/ d[i + 1] \in IncompleteEscapes
         THEN [raised |-> TRUE, value |-> <<>>]
    ELSE LET rest == UnicodeEscapeFrom(d, i + 2)
             c == d[i + 1]
             here == IF c \in SimpleEscapes THEN <<EscapeValue(c)>>
                     ELSE IF c = "\n" THEN <<>>
                     ELSE <<"\\">> \o Utf8AsLatin1(c)
         IN  [raised |-> rest.raised, value |-> here \o rest.value]

UnicodeEscape(d) == UnicodeEscapeFrom(d, 1)

\* the four delimiters both splitters translate by hand
IsNamedEscape(d) == d \in {<<"\\", "n">>, <<"\\", "t">>, <<"\\", "r">>, <<"\\", "n", "\\", "n">>}

NamedEscape(d) ==
    CASE d = <<"\\", "n">> -> <<"\n">>
      [] d = <<"\\", "t">> -> <<"\t">>
      [] d = <<"\\", "r">> -> <<"\r">>
      [] OTHER -> <<"\n", "\n">>

\* processed_delimiter of level6_custom_delimiter_splitting: a failed decoding
\* keeps the delimiter as given
ProcessedDelimiter6(delimiter) ==
    IF IsNamedEscape(delimiter) THEN NamedEscape(delimiter)
    ELSE IF \E i \in 1..Len(delimiter) : delimiter[i] = "\\"
         THEN LET dec == UnicodeEscape(delimiter)
              IN  IF dec.raised THEN delimiter ELSE dec.value
    ELSE delimiter

\* processed_delimiter of the table-preserving splitter: every other delimiter
\* is decoded, and a failed decoding is not caught
ProcessedDelimiterTable(delimiter) ==
    IF IsNamedEscape(delimiter) THEN [raised |-> FALSE, value |-> NamedEscape(delimiter)]
    ELSE UnicodeEscape(delimiter)

IsBlank(s) == Strip(s) = <<>>

\* result of a splitter that may raise
Returned(cs) == [raised |-> FALSE, chunks |-> cs]
Raised == [raised |-> TRUE, chunks |-> <<>>]

\* level6 with a size limit: every segment is windowed to chunk_size
level6_size_limited(t, delimiter, config) ==
    IF delimiter = <<>> THEN Returned(<<t>>)
    ELSE LET processed_delimiter == ProcessedDelimiter6(delimiter)
         IN  IF processed_delimiter = <<>> THEN Raised
             ELSE LET cs == Split(t, processed_delimiter)
                      filtered_chunks == SelectSeq(cs, LAMBDA c : ~IsBlank(c))
                      limited == Concat([k \in 1..Len(filtered_chunks) |->
                                            _windowed(filtered_chunks[k], config.chunk_size, 0)])
                  IN  IF filtered_chunks = <<>> THEN Returned(<<t>>)
                      ELSE Returned(limited)

\* level6 without the filter: blank segments are returned too
level6_unfiltered(t, delimiter, config) ==
    IF delimiter = <<>> THEN Returned(<<t>>)
    ELSE LET processed_delimiter == ProcessedDelimiter6(delimiter)
         IN  IF processed_delimiter = <<>> THEN Raised
             ELSE Returned(Split(t, processed_delimiter))

level6_custom_delimiter_splitting(t, delimiter, config) ==
    IF delimiter = <<>> THEN Returned(<<t>>)
    ELSE LET processed_delimiter == ProcessedDelimiter6(delimiter)
         IN  IF processed_delimiter = <<>> THEN Raised    \* str.split("") raises ValueError
             ELSE LET cs == Split(t, processed_delimiter)
                      filtered_chunks == SelectSeq(cs, LAMBDA c : ~IsBlank(c))
                  IN  IF filtered_chunks = <<>> THEN Returned(<<t>>)
                      ELSE Returned(filtered_chunks)

----------------------------------------------------------------------------
(* Table-preserving custom-delimiter splitting *)

\* the line boundaries str.splitlines() knows among the characters of the model
LineEnds == {"\n", "\r", "\f"}

\* text.splitlines(): no empty last line after a final line end
RECURSIVE SplitLinesFrom(_, _, _)
SplitLinesFrom(t, i, cur) ==
    IF i > Len(t) THEN (IF cur = <<>> THEN <<>> ELSE <<cur>>)
    ELSE IF t[i] \in LineEnds
         THEN LET step == IF t[i] = "\r" /\ i < Len(t) /\ t[i + 1] = "\n" THEN 2 ELSE 1
              IN  <<cur>> \o SplitLinesFrom(t, i + step, <<>>)
    ELSE SplitLinesFrom(t, i + 1, Append(cur, t[i]))

SplitLines(t) == SplitLinesFrom(t, 1, <<>>)

\* The regular expression of the alignment row,
\*   ^\s*\|?\s*:?-{3,}:?\s*(\|\s*:?-{3,}:?\s*)+\|?\s*$
\* run as an automaton: each operator maps the set of positions a prefix of
\* the expression can end at to the positions after one more factor.
ReWs(l, P) == {q \in 1..(Len(l) + 1) :
                 \E p \in P : p <= q /\ \A k \in p..(q - 1) : l[k] \in Whitespace}

ReOpt(l, P, c) == P \cup {p + 1 : p \in {q \in P : q <= Len(l) /\ l[q] = c}}

ReOne(l, P, c) == {p + 1 : p \in {q \in P : q <= Len(l) /\ l[q] = c}}

ReDashes(l, P) == {q \in 1..(Len(l) + 1) :
                     \E p \in P : p + 3 <= q /\ \A k \in p..(q - 1) : l[k] = "-"}

\* \s*:?-{3,}:?\s*
ReCell(l, P) == ReWs(l, ReOpt(l, ReDashes(l, ReOpt(l, ReWs(l, P), ":")), ":"))

\* (\|\s*:?-{3,}:?\s*)+  applied to P: one repetition, then any number more
RECURSIVE ReGroups(_, _, _)
ReGroups(l, P, fuel) ==
    LET once == ReCell(l, ReOne(l, P, "|"))
    IN  IF fuel = 0 \/ once = {} THEN once
        ELSE once \cup ReGroups(l, once, fuel - 1)

IsAlignmentRow(l) ==
    LET first == ReCell(l, ReOpt(l, ReWs(l, {1}), "|"))
        groups == ReGroups(l, first, Len(l))
    IN  (Len(l) + 1) \in ReWs(l, ReOpt(l, groups, "|"))

HasPipe(l) == \E k \in 1..Len(l) : l[k] = "|"

\* "|" in lines[i] and i + 1 < n and re.match(<alignment row>, lines[i + 1]); i from 1
IsTableStart(lines, i) ==
    /\ HasPipe(lines[i])
    /\ i + 1 <= Len(lines)
    /\ IsAlignmentRow(lines[i + 1])

\* the end (exclusive) of the run of rows of a table whose rows start at i
RECURSIVE TableRowsEnd(_, _)
TableRowsEnd(lines, i) ==
    IF i <= Len(lines) /\ HasPipe(lines[i]) /\ ~IsBlank(lines[i])
    THEN TableRowsEnd(lines, i + 1)
    ELSE i

\* the end (exclusive) of a text block: the next line that starts a table
RECURSIVE TextBlockEnd(_, _)
TextBlockEnd(lines, i) ==
    IF i <= Len(lines) /\ ~IsTableStart(lines, i)
    THEN TextBlockEnd(lines, i + 1)
    ELSE i

\* the scanner: blocks (type, content) in source order
RECURSIVE ScanBlocks(_, _)
ScanBlocks(lines, i) ==
    IF i > Len(lines) THEN <<>>
    ELSE IF IsTableStart(lines, i)
         THEN LET e == TableRowsEnd(lines, i + 2)
              IN  <<[type |-> "table", content |-> Join(SubSeq(lines, i, e - 1), <<"\n">>)]>>
                  \o ScanBlocks(lines, e)
    ELSE LET e == TextBlockEnd(lines, i + 1)
         IN  <<[type |-> "text", content |-> Join(SubSeq(lines, i, e - 1), <<"\n">>)]>>
             \o ScanBlocks(lines, e)

\* the loop of _smart_merge_text_segments: st = [chunks, current_chunk, current_size]
RECURSIVE SmartMergeLoop(_, _, _)
SmartMergeLoop(segs, target_size, st) ==
    IF segs = <<>> THEN st
    ELSE LET segment == Head(segs)
             segment_size == Len(segment)
             new_size == st.current_size + 2 + segment_size
             nxt == IF st.current_chunk = <<>>
                    THEN [st EXCEPT !.current_chunk = <<segment>>,
                                    !.current_size = segment_size]
                    ELSE IF new_size <= target_size \/ 2 * st.current_size < target_size
                    THEN [st EXCEPT !.current_chunk = Append(st.current_chunk, segment),
                                    !.current_size = new_size]
                    ELSE [chunks |-> Append(st.chunks, Join(st.current_chunk, <<"\n", "\n">>)),
                          current_chunk |-> <<segment>>,
                          current_size |-> segment_size]
         IN  SmartMergeLoop(Tail(segs), target_size, nxt)

_smart_merge_text_segments(segs, target_size, overlap) ==
    IF segs = <<>> THEN <<>>
    ELSE LET st == SmartMergeLoop(segs, target_size,
                                  [chunks |-> <<>>, current_chunk |-> <<>>, current_size |-> 0])
         IN  IF st.current_chunk # <<>>
             THEN Append(st.chunks, Join(st.current_chunk, <<"\n", "\n">>))
             ELSE st.chunks

\* one piece of a text block joins the running list or closes it:
\* st = [chunks, current_text_chunks, current_size]
AddPiece(st, piece, cfg) ==
    IF IsBlank(piece) THEN st
    ELSE LET stripped == Strip(piece)
             piece_size == Len(stripped)
             new_size == st.current_size + 2 + piece_size
         IN  IF st.current_text_chunks = <<>>
             THEN [st EXCEPT !.current_text_chunks = <<stripped>>,
                             !.current_size = piece_size]
             ELSE IF new_size <= cfg.chunk_size \/ 2 * st.current_size < cfg.chunk_size
             THEN [st EXCEPT !.current_text_chunks = Append(st.current_text_chunks, stripped),
                             !.current_size = new_size]
             ELSE [chunks |-> Append(st.chunks, Join(st.current_text_chunks, <<"\n", "\n">>)),
                   current_text_chunks |-> <<stripped>>,
                   current_size |-> piece_size]

RECURSIVE AddPieces(_, _, _)
AddPieces(st, pieces, cfg) ==
    IF pieces = <<>> THEN st
    ELSE AddPieces(AddPiece(st, Head(pieces), cfg), Tail(pieces), cfg)

\* a table block emitted without flushing the pending text first
EmitTable_pending_text_kept(st, content, cfg) ==
    [st EXCEPT !.chunks = Append(st.chunks, content)]

\* a table block: the pending text is merged and emitted, then the table alone
EmitTable(st, content, cfg) ==
    LET before == IF st.current_text_chunks # <<>>
                  THEN st.chunks \o _smart_merge_text_segments(st.current_text_chunks,
                                                               cfg.chunk_size, cfg.chunk_overlap)
                  ELSE st.chunks
    IN  [chunks |-> Append(before, content), current_text_chunks |-> <<>>, current_size |-> 0]

\* the loop over the blocks with tables treated like text
RECURSIVE BlockLoop_tables_as_text(_, _, _, _)
BlockLoop_tables_as_text(blocks, processed_delimiter, cfg, st) ==
    IF blocks = <<>> THEN st
    ELSE LET b == Head(blocks)
             nxt == IF Contains(b.content, processed_delimiter)
                    THEN AddPieces(st, Split(b.content, processed_delimiter), cfg)
                    ELSE AddPiece(st, b.content, cfg)
         IN  BlockLoop_tables_as_text(Tail(blocks), processed_delimiter, cfg, nxt)

\* the loop over the blocks, in source order
RECURSIVE BlockLoop(_, _, _, _)
BlockLoop(blocks, processed_delimiter, cfg, st) ==
    IF blocks = <<>> THEN st
    ELSE LET b == Head(blocks)
             nxt == IF b.type = "table" THEN EmitTable(st, b.content, cfg)
                    ELSE IF Contains(b.content, processed_delimiter)
                    THEN AddPieces(st, Split(b.content, processed_delimiter), cfg)
                    ELSE AddPiece(st, b.content, cfg)
         IN  BlockLoop(Tail(blocks), processed_delimiter, cfg, nxt)

custom_delimiter_splitting_with_chunk_size_and_leave_table_alone(t, delimiter, cfg) ==
    IF delimiter = <<>> THEN Returned(<<t>>)
    ELSE LET processed == ProcessedDelimiterTable(delimiter)
             blocks == ScanBlocks(SplitLines(t), 1)
             \* "" in content holds and content.split("") raises ValueError
             split_raises == /\ processed.value = <<>>
                             /\ \E k \in 1..Len(blocks) : blocks[k].type = "text"
         IN  IF processed.raised \/ split_raises THEN Raised
             ELSE LET st == BlockLoop(blocks, processed.value, cfg,
                                      [chunks |-> <<>>, current_text_chunks |-> <<>>,
                                       current_size |-> 0])
                  IN  IF st.current_text_chunks # <<>>
                      THEN Returned(st.chunks \o _smart_merge_text_segments(
                                        st.current_text_chunks, cfg.chunk_size, cfg.chunk_overlap))
                      ELSE Returned(st.chunks)

----------------------------------------------------------------------------
(* Level 3: document specific splitting *)

\* the least element of a non-empty set of numbers, d for the empty set
FirstOf(S, d) == IF S = {} THEN d ELSE CHOOSE k \in S : \A m \in S : k <= m

\* _split_python_code: the separators of logical blocks, strongest first
PythonSeparators ==
    << <<"\n", "\n">>,
       <<"\n", "c", "l", "a", "s", "s", " ">>,
       <<"\n", "d", "e", "f", " ">>,
       <<"\n", "i", "f", " ", "_", "_", "n", "a", "m", "e", "_", "_", " ", "=", "=", " ",
         "'", "_", "_", "m", "a", "i", "n", "_", "_", "'", ":">>,
       <<"\n", "#", " ">>,
       <<"\n">> >>

_split_python_code(t, cfg) ==
    LET keep_delimiters == cfg.chunk_overlap > 0
        parts == _split_on_separators(t, PythonSeparators, keep_delimiters)
    IN  _by_max_tokens(parts, cfg.chunk_size, cfg.chunk_overlap)

\* the opening fence: optional whitespace, three backticks or three tildes,
\* then no backtick up to the end of the line
\* the backtick is written by its code point
Backticks == <<"U0060", "U0060", "U0060">>
Tildes == <<"~", "~", "~">>

StartsFence(l) == MatchAt(LStrip(l), Backticks, 1) \/ MatchAt(LStrip(l), Tildes, 1)

IsFenceOpen(l) ==
    /\ StartsFence(l)
    /\ \A k \in 4..Len(LStrip(l)) : LStrip(l)[k] # "U0060"

\* m_code.group(1)
FenceOf(l) == SubSeq(LStrip(l), 1, 3)

\* ^\s*<fence>\s*$
IsFenceClose(l, fence) ==
    /\ MatchAt(LStrip(l), fence, 1)
    /\ IsBlank(SubSeq(LStrip(l), 4, Len(LStrip(l))))

\* ^\s{0,3}#{1,6}\s+
IsHeading(l) ==
    \E w \in 0..3 : \E h \in 1..6 :
        /\ w + h + 1 <= Len(l)
        /\ \A k \in 1..w : l[k] \in Whitespace
        /\ \A k \in (w + 1)..(w + h) : l[k] = "#"
        /\ l[w + h + 1] \in Whitespace

\* ^\s{0,3}(?:c\s?){3,}$ for one rule character c
IsRuleOf(l, c) ==
    \E w \in 0..3 :
        /\ w + 1 <= Len(l)
        /\ \A k \in 1..w : l[k] \in Whitespace
        /\ l[w + 1] = c
        /\ \A k \in (w + 1)..Len(l) : l[k] = c \/ l[k] \in Whitespace
        /\ \A k \in (w + 1)..(Len(l) - 1) : ~(l[k] \in Whitespace /\ l[k + 1] \in Whitespace)
        /\ Cardinality({k \in (w + 1)..Len(l) : l[k] = c}) >= 3

IsHorizontalRule(l) == IsRuleOf(l, "-") \/ IsRuleOf(l, "_") \/ IsRuleOf(l, "*")

\* ^\s*>\s?
IsBlockquote(l) == LStrip(l) # <<>> /\ Head(LStrip(l)) = ">"

Digits == {"0", "1", "2", "3", "4", "5", "6", "7", "8", "9"}

\* ^\s*(?:[-+*]|\d+[.)])\s+
IsListItem(l) ==
    LET r == LStrip(l)
    IN  \/ /\ Len(r) >= 2
           /\ r[1] \in {"-", "+", "*"}
           /\ r[2] \in Whitespace
        \/ \E d \in 1..Len(r) :
              /\ d + 2 <= Len(r)
              /\ \A k \in 1..d : r[k] \in Digits
              /\ r[d + 1] \in {".", ")"}
              /\ r[d + 2] \in Whitespace

\* a line that continues a list block
ContinuesList(l) ==
    \/ IsListItem(l)
    \/ MatchAt(l, <<" ", " ", " ", " ">>, 1)
    \/ MatchAt(l, <<"\t">>, 1)

\* a line that ends the paragraph before it
EndsParagraph(lines, k) ==
    \/ IsBlank(lines[k])
    \/ IsHeading(lines[k])
    \/ IsBlockquote(lines[k])
    \/ IsListItem(lines[k])
    \/ StartsFence(lines[k])
    \/ IsTableStart(lines, k)

\* a block that keeps its first line only
Block_first_line_only(type, lines, i, e) ==
    [type |-> type, content |-> lines[i]]

Block(type, lines, i, e) ==
    [type |-> type, content |-> Join(SubSeq(lines, i, e - 1), <<"\n">>)]

\* the scanner of _split_markdown: blocks (type, content) in source order
RECURSIVE MarkdownBlocks(_, _)
MarkdownBlocks(lines, i) ==
    LET n == Len(lines)
        later == (i + 1)..n
        line == lines[i]
    IN  IF i > n THEN <<>>
        ELSE IF IsFenceOpen(line)
        THEN LET close == FirstOf({k \in later : IsFenceClose(lines[k], FenceOf(line))}, n)
             IN  <<Block("code", lines, i, close + 1)>> \o MarkdownBlocks(lines, close + 1)
        ELSE IF IsHeading(line)
        THEN LET e == FirstOf({k \in later : ~IsBlank(lines[k])}, n + 1)
             IN  <<Block("heading", lines, i, e)>> \o MarkdownBlocks(lines, e)
        ELSE IF IsHorizontalRule(line)
        THEN <<Block("hr", lines, i, i + 1)>> \o MarkdownBlocks(lines, i + 1)
        ELSE IF IsTableStart(lines, i)
        THEN LET e == TableRowsEnd(lines, i + 2)
             IN  <<Block("table", lines, i, e)>> \o MarkdownBlocks(lines, e)
        ELSE IF IsBlockquote(line)
        THEN LET e == FirstOf({k \in later : ~IsBlockquote(lines[k])}, n + 1)
             IN  <<Block("blockquote", lines, i, e)>> \o MarkdownBlocks(lines, e)
        ELSE IF IsListItem(line)
        THEN LET e == FirstOf({k \in later : ~ContinuesList(lines[k])}, n + 1)
             IN  <<Block("list", lines, i, e)>> \o MarkdownBlocks(lines, e)
        ELSE IF IsBlank(line)
        THEN <<Block("blank", lines, i, i + 1)>> \o MarkdownBlocks(lines, i + 1)
        ELSE LET e == FirstOf({k \in later : EndsParagraph(lines, k)}, n + 1)
             IN  <<Block("para", lines, i, e)>> \o MarkdownBlocks(lines, e)

\* "\n\n".join(current).strip()
Section(current) == Strip(Join(current, <<"\n", "\n">>))

\* grouping by headings with code and list blocks left out when their flag
\* is off
RECURSIVE GroupLoop_flags_honoured(_, _, _)
GroupLoop_flags_honoured(blocks, options, st) ==
    IF blocks = <<>> THEN st
    ELSE LET b == Head(blocks)
             nxt == IF b.type = "heading"
                    THEN [sections |-> IF st.current # <<>>
                                       THEN Append(st.sections, Section(st.current))
                                       ELSE st.sections,
                          current |-> <<b.content>>]
                    ELSE IF b.type = "code" /\ ~options.preserve_code_blocks THEN st
                    ELSE IF b.type = "list" /\ ~options.preserve_lists THEN st
                    ELSE [st EXCEPT !.current = Append(st.current, b.content)]
         IN  GroupLoop_flags_honoured(Tail(blocks), options, nxt)

\* grouping by headings: st = [sections, current]; the three branches of a
\* block that is not a heading are the three of the code
RECURSIVE GroupLoop(_, _, _)
GroupLoop(blocks, options, st) ==
    IF blocks = <<>> THEN st
    ELSE LET b == Head(blocks)
             nxt == IF b.type = "heading"
                    THEN [sections |-> IF st.current # <<>>
                                       THEN Append(st.sections, Section(st.current))
                                       ELSE st.sections,
                          current |-> <<b.content>>]
                    ELSE IF b.type = "code" /\ options.preserve_code_blocks
                    THEN [st EXCEPT !.current = Append(st.current, b.content)]
                    ELSE IF b.type = "list" /\ options.preserve_lists
                    THEN [st EXCEPT !.current = Append(st.current, b.content)]
                    ELSE [st EXCEPT !.current = Append(st.current, b.content)]
         IN  GroupLoop(Tail(blocks), options, nxt)

MarkdownSections(blocks, options) ==
    IF options.preserve_headers
    THEN LET st == GroupLoop(blocks, options, [sections |-> <<>>, current |-> <<>>])
         IN  IF st.current # <<>> THEN Append(st.sections, Section(st.current))
             ELSE st.sections
    ELSE SelectSeq([k \in 1..Len(blocks) |-> blocks[k].content], LAMBDA c : ~IsBlank(c))

\* every non-blank section is packed on its own
RECURSIVE PackSections(_, _)
PackSections(sections, cfg) ==
    IF sections = <<>> THEN <<>>
    ELSE (IF IsBlank(Head(sections)) THEN <<>>
          ELSE _by_max_tokens(<<Head(sections)>>, cfg.chunk_size, cfg.chunk_overlap))
         \o PackSections(Tail(sections), cfg)

\* options holds preserve_headers, preserve_code_blocks and preserve_lists
_split_markdown(t, cfg, options) ==
    PackSections(MarkdownSections(MarkdownBlocks(SplitLines(t), 1), options), cfg)

\* re.IGNORECASE on the letters of "page break"
Lowered(c) ==
    CASE c = "P" -> "p" [] c = "A" -> "a" [] c = "G" -> "g" [] c = "E" -> "e"
      [] c = "B" -> "b" [] c = "R" -> "r" [] c = "K" -> "k" [] OTHER -> c

\* the positions after the letters of word, read from the positions P
RECURSIVE ReWord(_, _, _)
ReWord(l, P, word) ==
    IF word = <<>> THEN P
    ELSE ReWord(l, {p + 1 : p \in {q \in P : q <= Len(l) /\ Lowered(l[q]) = Head(word)}},
                Tail(word))

\* \n\s*---\s*page\s*break\s*---\s*\n matched at i: the position after the
\* match (the greedy last \s* takes the longest run), 0 when there is none
PageBreakEnd(t, i) ==
    LET p1 == ReWs(t, ReOne(t, {i}, "\n"))
        p2 == ReWs(t, ReWord(t, p1, <<"-", "-", "-">>))
        p3 == ReWs(t, ReWord(t, p2, <<"p", "a", "g", "e">>))
        p4 == ReWs(t, ReWord(t, p3, <<"b", "r", "e", "a", "k">>))
        p5 == ReWs(t, ReWord(t, p4, <<"-", "-", "-">>))
        ends == ReOne(t, p5, "\n")
    IN  IF ends = {} THEN 0 ELSE CHOOSE e \in ends : \A m \in ends : m <= e

\* re.split(r"\f|<page break>", text, flags=re.IGNORECASE)
RECURSIVE PageSections(_, _, _)
PageSections(t, i, cur) ==
    IF i > Len(t) THEN <<cur>>
    ELSE IF t[i] = "\f" THEN <<cur>> \o PageSections(t, i + 1, <<>>)
    ELSE IF PageBreakEnd(t, i) > 0 THEN <<cur>> \o PageSections(t, PageBreakEnd(t, i), <<>>)
    ELSE PageSections(t, i + 1, Append(cur, t[i]))

PdfSeparators == << <<"\n", "\n">>, <<"\n">>, <<" ">> >>

RECURSIVE PackPages(_, _)
PackPages(pages, cfg) ==
    IF pages = <<>> THEN <<>>
    ELSE _by_max_tokens(_split_on_separators(Head(pages), PdfSeparators, cfg.chunk_overlap > 0),
                        cfg.chunk_size, cfg.chunk_overlap)
         \o PackPages(Tail(pages), cfg)

_split_pdf_text(t, cfg) == PackPages(PageSections(t, 1, <<>>), cfg)

\* (document_type or "").lower() on the document types of the model
LowerDocType(v) ==
    CASE v = "MD" -> "md" [] v = "Markdown" -> "markdown" [] v = "PDF" -> "pdf"
      [] OTHER -> v

level3_document_specific_splitting(t, document_type, cfg, doc_options) ==
    LET doc_type == LowerDocType(document_type)
    IN  IF doc_type \in {"py", "python"} THEN _split_python_code(t, cfg)
        ELSE IF doc_type \in {"md", "markdown"} THEN _split_markdown(t, cfg, doc_options)
        ELSE IF doc_type \in {"pdf"} THEN _split_pdf_text(t, cfg)
        ELSE level2_recursive_character_splitting(t, cfg)

----------------------------------------------------------------------------
(* Level 4: semantic splitting *)

\* the characters of the look-behind class of the sentence regex
\* (; ? ! and their full-width forms, and the ideographic full stop)
SentenceEnds == {";", "?", "!", "U3002", "UFF1B", "UFF1F", "UFF01"}

\* re.split(r'(?<=[...])', t): cut after every sentence-ending character
RECURSIVE CutAfterEnds(_, _, _)
CutAfterEnds(t, i, cur) ==
    IF i > Len(t) THEN <<cur>>
    ELSE IF t[i] \in SentenceEnds /\ i < Len(t)
         THEN <<Append(cur, t[i])>> \o CutAfterEnds(t, i + 1, <<>>)
    ELSE IF t[i] \in SentenceEnds
         THEN <<Append(cur, t[i]), <<>> >>
    ELSE CutAfterEnds(t, i + 1, Append(cur, t[i]))

\* [s.strip() for s in re.split(..., text.strip()) if s.strip()]
_split_text_into_sentences(t) ==
    LET pieces == CutAfterEnds(Strip(t), 1, <<>>)
        stripped == [k \in 1..Len(pieces) |-> Strip(pieces[k])]
    IN  SelectSeq(stripped, LAMBDA x : x # <<>>)

\* an embedding vector is a pair of integers whose norm is an integer
Dot(a, b) == a[1] * b[1] + a[2] * b[2]

\* math.sqrt on the squared norms the vectors of the model have
Sqrt(x) == CHOOSE r \in 0..x : r * r = x

\* _cosine_similarity in hundredths
_cosine_similarity(vec_a, vec_b) ==
    IF vec_a = <<>> \/ vec_b = <<>> THEN 0
    ELSE LET norm_a == Sqrt(Dot(vec_a, vec_a))
             norm_b == Sqrt(Dot(vec_b, vec_b))
         IN  IF norm_a = 0 \/ norm_b = 0 THEN 0
             ELSE (100 * Dot(vec_a, vec_b)) \div (norm_a * norm_b)

\* distances[i] = 1 - similarity of the embeddings i and i+1, in hundredths
Distances(embeddings) ==
    [i \in 1..(Len(embeddings) - 1) |->
        100 - _cosine_similarity(embeddings[i], embeddings[i + 1])]

RECURSIVE Insert(_, _)
Insert(x, sorted) ==
    IF sorted = <<>> THEN <<x>>
    ELSE IF x <= Head(sorted) THEN <<x>> \o sorted
    ELSE <<Head(sorted)>> \o Insert(x, Tail(sorted))

RECURSIVE Sorted(_)
Sorted(s) == IF s = <<>> THEN <<>> ELSE Insert(Head(s), Sorted(Tail(s)))

\* np.percentile(distances, 95), linear interpolation, in ten-thousandths:
\* the rank is 0.95 * (n - 1), counted from 0
Percentile95(distances) ==
    LET srt == Sorted(distances)
        n == Len(srt)
        rank100 == 95 * (n - 1)
        lo == rank100 \div 100
        frac == rank100 % 100
        hi == Min(lo + 1, n - 1)
    IN  srt[lo + 1] * 100 + frac * (srt[hi + 1] - srt[lo + 1])

\* effective_threshold without the percentile: the configured threshold alone
EffectiveThreshold_configured_only(distances, similarity_drop_threshold) ==
    similarity_drop_threshold * 100

\* effective_threshold in ten-thousandths; the configured threshold is in hundredths
EffectiveThreshold(distances, similarity_drop_threshold) ==
    IF distances # <<>>
    THEN Max(similarity_drop_threshold * 100, Percentile95(distances))
    ELSE similarity_drop_threshold * 100

\* boundary_indices, counted from 0 as in the code
BoundaryIndices(distances, threshold, n) ==
    LET inner == SelectSeq([i \in 1..Len(distances) |-> i],
                           LAMBDA i : distances[i] * 100 > threshold)
    IN  <<0>> \o inner \o <<n>>

\* the loop of _split_large_semantic_chunk: st = [sub_chunks, current_chunk]
RECURSIVE LargeChunkLoop(_, _, _, _)
LargeChunkLoop(sentences, target_size, overlap, st) ==
    IF sentences = <<>> THEN st
    ELSE LET sentence == Head(sentences)
             nxt == IF st.current_chunk # <<>>
                       /\ Len(st.current_chunk \o sentence) > target_size
                    THEN [sub_chunks |-> Append(st.sub_chunks, st.current_chunk),
                          current_chunk |-> sentence]
                    ELSE [st EXCEPT !.current_chunk = st.current_chunk \o sentence]
         IN  LargeChunkLoop(Tail(sentences), target_size, overlap, nxt)

\* _split_large_semantic_chunk cutting the joined chunk by length instead of
\* packing whole sentences
_split_large_semantic_chunk_by_length(chunk, sentences, target_size, overlap) ==
    _windowed_no_overlap(chunk, target_size)

_split_large_semantic_chunk(chunk, sentences, target_size, overlap) ==
    IF Len(chunk) <= target_size THEN <<chunk>>
    ELSE LET st == LargeChunkLoop(sentences, target_size, overlap,
                                  [sub_chunks |-> <<>>, current_chunk |-> <<>>])
         IN  IF st.current_chunk # <<>> THEN Append(st.sub_chunks, st.current_chunk)
             ELSE st.sub_chunks

\* the chunks of the sentences between two consecutive boundaries
SemanticChunk(sentences, start, end, cfg) ==
    LET chunk_sentences == SubSeq(sentences, start + 1, end)
        chunk == Join(chunk_sentences, <<" ">>)
    IN  IF Len(chunk) > cfg.chunk_size * 2
        THEN _split_large_semantic_chunk(chunk, chunk_sentences, cfg.chunk_size, cfg.chunk_overlap)
        ELSE <<chunk>>

RECURSIVE SemanticChunks(_, _, _, _)
SemanticChunks(sentences, boundaries, k, cfg) ==
    IF k >= Len(boundaries) THEN <<>>
    ELSE SemanticChunk(sentences, boundaries[k], boundaries[k + 1], cfg)
         \o SemanticChunks(sentences, boundaries, k + 1, cfg)

\* sentences of level4_semantic_splitting (step 1)
Level4Sentences(t) ==
    LET pieces == CutAfterEnds(Strip(t), 1, <<>>)
        stripped == [k \in 1..Len(pieces) |-> Strip(pieces[k])]
    IN  SelectSeq(stripped, LAMBDA x : x # <<>>)

\* combined_texts (step 2): sentence i with buffer_size neighbours on each side
CombinedTexts(sentences, buffer_size) ==
    [i \in 1..Len(sentences) |->
        Concat(SubSeq(sentences, Max(1, i - buffer_size),
                      Min(Len(sentences), i + buffer_size)))]

\* level4_semantic_splitting after the embedding call has returned
SemanticAfterEmbedding(sentences, embeddings, cfg, similarity_drop_threshold) ==
    LET distances == Distances(embeddings)
        threshold == EffectiveThreshold(distances, similarity_drop_threshold)
        boundaries == BoundaryIndices(distances, threshold, Len(sentences))
        semantic_chunks == SemanticChunks(sentences, boundaries, 1, cfg)
    IN  SelectSeq(semantic_chunks, LAMBDA c : ~IsBlank(c))

----------------------------------------------------------------------------
(* Level 5: agentic splitting *)

\* characters in the range U+4E00..U+9FFF among the characters of the model
ChineseChars == {"U4E2D", "U6587"}

\* int(chinese_chars * 1.5 + english_chars * 0.3)
_estimate_token_count(t) ==
    LET chinese_chars == Len(SelectSeq(t, LAMBDA c : c \in ChineseChars))
        english_chars == Len(t) - chinese_chars
    IN  (15 * chinese_chars + 3 * english_chars) \div 10

\* the loop of _batch_sentences_for_token_limit: st = [batches, current_batch, current_tokens]
RECURSIVE BatchLoop(_, _, _)
BatchLoop(sentences, max_tokens, st) ==
    IF sentences = <<>> THEN st
    ELSE LET sentence == Head(sentences)
             sentence_tokens == _estimate_token_count(sentence)
             nxt == IF st.current_tokens + sentence_tokens > max_tokens
                       /\ st.current_batch # <<>>
                    THEN [batches |-> Append(st.batches, st.current_batch),
                          current_batch |-> <<sentence>>,
                          current_tokens |-> sentence_tokens]
                    ELSE [st EXCEPT !.current_batch = Append(st.current_batch, sentence),
                                    !.current_tokens = st.current_tokens + sentence_tokens]
         IN  BatchLoop(Tail(sentences), max_tokens, nxt)

\* _batch_sentences_for_token_limit with the budget never looked at: all the
\* sentences go into one batch
_batch_sentences_in_one_batch(sentences, max_tokens) ==
    IF sentences = <<>> THEN <<>> ELSE <<sentences>>

_batch_sentences_for_token_limit(sentences, max_tokens) ==
    LET st == BatchLoop(sentences, max_tokens,
                        [batches |-> <<>>, current_batch |-> <<>>, current_tokens |-> 0])
    IN  IF st.current_batch # <<>> THEN Append(st.batches, st.current_batch)
        ELSE st.batches

\* A chat response is what the parsing of _merge_chunks_with_llm makes of it:
\*   kind "no_array"     re.search(r"\[.*\]") finds nothing
\*   kind "invalid_json" the bracketed text is not JSON
\*   kind "array"        a JSON array; an element is a string (its text), or
\*                       something that is no str/int/float (null, object, list)
NotScalar == <<"<not a scalar>">>

\* the part of _merge_chunks_with_llm after the chat call
ParseResponse(response, batch_text, cfg) ==
    IF response.kind = "array"
    THEN SelectSeq(response.elems, LAMBDA x : x # NotScalar)
    ELSE level2_recursive_character_splitting(batch_text, cfg)

\* Normalized with the final pass left out: the chunks come back as collected
Normalized_skipped(cs, cfg) == cs

\* steps 4 and 5 of level5_agentic_splitting
RECURSIVE Normalized(_, _)
Normalized(cs, cfg) ==
    IF cs = <<>> THEN <<>>
    ELSE (IF Len(Head(cs)) > cfg.chunk_size * 2
          THEN _windowed(Head(cs), cfg.chunk_size, cfg.chunk_overlap)
          ELSE <<Head(cs)>>) \o Normalized(Tail(cs), cfg)

AgenticFinal(cs, cfg) ==
    LET merged == IF Len(cs) > MaxAgenticChunks
                  THEN level2_recursive_character_splitting(Join(cs, <<"\n", "\n">>), cfg)
                  ELSE cs
    IN  Normalized(merged, cfg)

----------------------------------------------------------------------------
(* The dispatcher chunk_text *)

\* str.strip() on the strategy values of the model
StripStrategy(v) == IF v = " " THEN "" ELSE v

\* strategy = (chunking_strategy_value or "").strip() or "auto"; auto -> semantic
Strategy ==
    LET stripped == StripStrategy(chunking_strategy_value)
        named == IF stripped = "" THEN "auto" ELSE stripped
    IN  IF named = "auto" THEN "semantic_splitting" ELSE named

KnownStrategies ==
    {"character_splitting", "recursive_character_splitting", "custom_delimiter_splitting",
     "custom_delimiter_splitting_with_chunk_size_and_leave_table_alone",
     "document_specific_splitting", "semantic_splitting", "agentic_splitting",
     "alternative_representation_chunking"}

\* cfg = ChunkingConfig(chunk_size=chunk_size, chunk_overlap=chunk_overlap)
Cfg == ChunkingConfig(chunk_size, chunk_overlap)

\* the call has not produced anything for the caller yet
Running == pc \in {"call", "batches"}

Return(cs) ==
    /\ pc' = "returned"
    /\ chunks' = cs
    /\ derivatives' = <<>>

Raise ==
    /\ pc' = "raised"
    /\ UNCHANGED <<chunks, derivatives>>

ReturnOrRaise(r) == IF r.raised THEN Raise ELSE Return(r.chunks)

Arguments == <<text, enable_chunking, chunking_strategy_value, chunk_size, chunk_overlap,
               chunking_config, segments>>

AgenticState == <<sentence_batches, batch_results, chat_log, all_chunks>>

\* the state of the service around chunk_text and the loop index of _windowed
ServiceState == <<loop_start, tasks, handlers, _queue_lock, started>>

\* ChunkingDisabled with the flag ignored: the text is split all the same
ChunkingDisabled_split ==
    /\ pc = "call"
    /\ ~enable_chunking
    /\ Return(level2_recursive_character_splitting(text, Cfg))
    /\ UNCHANGED <<ServiceState, Arguments, AgenticState, embed_calls, embed_log, chat_calls, other_call>>

\* if not enable_chunking: return {"chunks": [text], "derivatives": []}
ChunkingDisabled ==
    /\ pc = "call"
    /\ ~enable_chunking
    /\ Return(<<text>>)
    /\ UNCHANGED <<ServiceState, Arguments, AgenticState, embed_calls, embed_log, chat_calls, other_call>>

CharacterSplitting ==
    /\ pc = "call"
    /\ enable_chunking
    /\ Strategy = "character_splitting"
    /\ Return(level1_character_splitting(text, Cfg))
    /\ UNCHANGED <<ServiceState, Arguments, AgenticState, embed_calls, embed_log, chat_calls, other_call>>

\* a non-empty list under recursive_splitting_config.separators replaces the default
RecursiveCfg ==
    IF chunking_config.separators # <<>>
    THEN [Cfg EXCEPT !.separators = chunking_config.separators]
    ELSE Cfg

RecursiveSplitting ==
    /\ pc = "call"
    /\ enable_chunking
    /\ Strategy = "recursive_character_splitting"
    /\ Return(level2_recursive_character_splitting(text, RecursiveCfg))
    /\ UNCHANGED <<ServiceState, Arguments, AgenticState, embed_calls, embed_log, chat_calls, other_call>>

CustomDelimiterSplitting ==
    /\ pc = "call"
    /\ enable_chunking
    /\ Strategy = "custom_delimiter_splitting"
    /\ ReturnOrRaise(level6_custom_delimiter_splitting(text, chunking_config.delimiter, Cfg))
    /\ UNCHANGED <<ServiceState, Arguments, AgenticState, embed_calls, embed_log, chat_calls, other_call>>

TablePreservingSplitting ==
    /\ pc = "call"
    /\ enable_chunking
    /\ Strategy = "custom_delimiter_splitting_with_chunk_size_and_leave_table_alone"
    /\ ReturnOrRaise(custom_delimiter_splitting_with_chunk_size_and_leave_table_alone(
                         text, chunking_config.delimiter, Cfg))
    /\ UNCHANGED <<ServiceState, Arguments, AgenticState, embed_calls, embed_log, chat_calls, other_call>>

\* doc_type = (dconf.get("document_type") or "").strip() or "markdown"
DocType ==
    LET stripped == IF chunking_config.document_type = " " THEN ""
                    ELSE chunking_config.document_type
    IN  IF stripped = "" THEN "markdown" ELSE stripped

DocOptions == [preserve_headers |-> chunking_config.preserve_headers,
               preserve_code_blocks |-> chunking_config.preserve_code_blocks,
               preserve_lists |-> chunking_config.preserve_lists]

DocumentSpecificSplitting ==
    /\ pc = "call"
    /\ enable_chunking
    /\ Strategy = "document_specific_splitting"
    /\ Return(level3_document_specific_splitting(text, DocType, Cfg, DocOptions))
    /\ UNCHANGED <<ServiceState, Arguments, AgenticState, embed_calls, embed_log, chat_calls, other_call>>

\* similarity_threshold of semantic_splitting_config in hundredths, 0.25 when absent
SimilarityDrop ==
    IF chunking_config.similarity_threshold = <<>> THEN 25
    ELSE chunking_config.similarity_threshold[1]

\* the vectors the embedding client of the model answers with
EmbeddingPool == {<<1, 0>>, <<3, 4>>, <<0, 0>>, <<-1, 0>>}

\* The embedding client is a deterministic function of the texts it is given:
\* when the other call has already asked for the same texts, this call gets
\* the answer the other call got.
Answered(texts) ==
    /\ other_call.embed_log # <<>>
    /\ other_call.embed_log[1].texts = texts

\* the lists of vectors client.embed_texts can answer with
EmbeddingAnswers(texts) ==
    IF Answered(texts)
    THEN IF other_call.embed_log[1].kind = "vectors"
         THEN {other_call.embed_log[1].vectors}
         ELSE {}
    ELSE [1..Len(texts) -> EmbeddingPool]

\* client.embed_texts can raise on these texts
EmbeddingCanRaise(texts) == Answered(texts) => other_call.embed_log[1].kind = "raise"

\* SemanticSplitting reading semantic_splitting_config only when the strategy was
\* named outright: under "auto" the default threshold is used
SemanticSplitting_auto_default_threshold ==
    /\ pc = "call"
    /\ enable_chunking
    /\ Strategy = "semantic_splitting"
    /\ LET sentences == Level4Sentences(text)
           combined_texts == CombinedTexts(sentences, chunking_config.buffer_size)
           drop == IF chunking_strategy_value = "auto" THEN 25 ELSE SimilarityDrop
       IN  IF Len(sentences) <= 1
           THEN /\ Return(<<text>>)
                /\ UNCHANGED <<embed_calls, embed_log>>
           ELSE \E embeddings \in EmbeddingAnswers(combined_texts) :
                   /\ embed_calls' = embed_calls + 1
                   /\ embed_log' = Append(embed_log, [texts |-> combined_texts,
                                                      kind |-> "vectors",
                                                      vectors |-> embeddings])
                   /\ Return(SemanticAfterEmbedding(sentences, embeddings, Cfg, drop))
    /\ UNCHANGED <<ServiceState, Arguments, AgenticState, chat_calls, other_call>>

\* level4_semantic_splitting: a text of at most one sentence comes back whole
\* without an embedding call; otherwise one call embeds all combined windows
SemanticSplitting ==
    /\ pc = "call"
    /\ enable_chunking
    /\ Strategy = "semantic_splitting"
    /\ LET sentences == Level4Sentences(text)
           combined_texts == CombinedTexts(sentences, chunking_config.buffer_size)
       IN  IF Len(sentences) <= 1
           THEN /\ Return(<<text>>)
                /\ UNCHANGED <<embed_calls, embed_log>>
           ELSE \E embeddings \in EmbeddingAnswers(combined_texts) :
                   /\ embed_calls' = embed_calls + 1
                   /\ embed_log' = Append(embed_log, [texts |-> combined_texts,
                                                      kind |-> "vectors",
                                                      vectors |-> embeddings])
                   /\ Return(SemanticAfterEmbedding(sentences, embeddings, Cfg, SimilarityDrop))
    /\ UNCHANGED <<ServiceState, Arguments, AgenticState, chat_calls, other_call>>

\* client.embed_texts raises: nothing catches it
SemanticEmbeddingRaises ==
    /\ pc = "call"
    /\ enable_chunking
    /\ Strategy = "semantic_splitting"
    /\ Len(Level4Sentences(text)) > 1
    /\ EmbeddingCanRaise(CombinedTexts(Level4Sentences(text), chunking_config.buffer_size))
    /\ embed_calls' = embed_calls + 1
    /\ embed_log' = Append(embed_log,
                           [texts |-> CombinedTexts(Level4Sentences(text),
                                                    chunking_config.buffer_size),
                            kind |-> "raise", vectors |-> <<>>])
    /\ Raise
    /\ UNCHANGED <<ServiceState, Arguments, AgenticState, chat_calls, other_call>>

\* steps 1 and 2 of level5_agentic_splitting
AgenticStart ==
    /\ pc = "call"
    /\ enable_chunking
    /\ Strategy = "agentic_splitting"
    /\ LET sentences == _split_text_into_sentences(text)
       IN  IF sentences = <<>>
           THEN /\ Return(<<text>>)
                /\ UNCHANGED sentence_batches
           ELSE /\ sentence_batches' =
                       _batch_sentences_for_token_limit(sentences, AgenticMaxTokens)
                /\ pc' = "batches"
                /\ UNCHANGED <<chunks, derivatives>>
    /\ UNCHANGED <<ServiceState, Arguments, batch_results, chat_log, all_chunks, embed_calls, embed_log,
                   chat_calls, other_call>>

\* the responses the chat client of the model answers a batch with
LongAnswer == <<"a", "a", "a", "a", "a", "a", "a">>

ManyAnswers == [k \in 1..(MaxAgenticChunks + 1) |-> <<"a">>]

ResponsePool(batch) ==
    { [kind |-> "no_array", elems |-> <<>>],
      [kind |-> "invalid_json", elems |-> <<>>],
      [kind |-> "array", elems |-> batch],
      [kind |-> "array", elems |-> <<Concat(batch)>>],
      [kind |-> "array", elems |-> <<>>],
      [kind |-> "array", elems |-> <<NotScalar>>],
      [kind |-> "array", elems |-> <<LongAnswer>>],
      [kind |-> "array", elems |-> ManyAnswers] }

\* the batch the loop of step 3 is at, counted from 1
BatchIndex == Len(batch_results) + 1

\* AgenticChat with an unparsable answer degrading the whole request: the
\* whole text is re-split and replaces what the earlier batches gave
AgenticChat_resplit_request ==
    /\ pc = "batches"
    /\ BatchIndex <= Len(sentence_batches)
    /\ LET batch == sentence_batches[BatchIndex]
       IN  \E response \in ResponsePool(batch) :
              LET batch_chunks == ParseResponse(response, text, Cfg)
              IN  /\ chat_calls' = chat_calls + 1
                  /\ chat_log' = Append(chat_log, [batch |-> BatchIndex, response |-> response])
                  /\ batch_results' = Append(batch_results, batch_chunks)
                  /\ all_chunks' = IF response.kind = "array"
                                   THEN all_chunks \o batch_chunks
                                   ELSE batch_chunks
    /\ UNCHANGED <<ServiceState, Arguments, sentence_batches, pc, chunks, derivatives, embed_calls,
                   embed_log, other_call>>

\* one iteration of step 3: _merge_chunks_with_llm on the next batch
AgenticChat ==
    /\ pc = "batches"
    /\ BatchIndex <= Len(sentence_batches)
    /\ LET batch == sentence_batches[BatchIndex]
       IN  \E response \in ResponsePool(batch) :
              LET batch_chunks == ParseResponse(response, Concat(batch), Cfg)
              IN  /\ chat_calls' = chat_calls + 1
                  /\ chat_log' = Append(chat_log, [batch |-> BatchIndex, response |-> response])
                  /\ batch_results' = Append(batch_results, batch_chunks)
                  /\ all_chunks' = all_chunks \o batch_chunks
    /\ UNCHANGED <<ServiceState, Arguments, sentence_batches, pc, chunks, derivatives, embed_calls,
                   embed_log, other_call>>

\* AgenticChatRaises with the error caught and the batch left to be called again
AgenticChatRaises_retry ==
    /\ pc = "batches"
    /\ BatchIndex <= Len(sentence_batches)
    /\ chat_calls < Len(sentence_batches) + 1
    /\ chat_calls' = chat_calls + 1
    /\ chat_log' = Append(chat_log, [batch |-> BatchIndex,
                                     response |-> [kind |-> "raise", elems |-> <<>>]])
    /\ UNCHANGED <<ServiceState, Arguments, sentence_batches, batch_results, all_chunks, embed_calls,
                   embed_log, other_call, pc, chunks, derivatives>>

\* client.chat_invoke raises: nothing catches it
AgenticChatRaises ==
    /\ pc = "batches"
    /\ BatchIndex <= Len(sentence_batches)
    /\ chat_calls' = chat_calls + 1
    /\ chat_log' = Append(chat_log, [batch |-> BatchIndex,
                                     response |-> [kind |-> "raise", elems |-> <<>>]])
    /\ Raise
    /\ UNCHANGED <<ServiceState, Arguments, sentence_batches, batch_results, all_chunks, embed_calls,
                   embed_log, other_call>>

\* steps 4 and 5 once every batch has been answered
AgenticFinish ==
    /\ pc = "batches"
    /\ BatchIndex > Len(sentence_batches)
    /\ Return(AgenticFinal(all_chunks, Cfg))
    /\ UNCHANGED <<ServiceState, Arguments, AgenticState, embed_calls, embed_log, chat_calls, other_call>>
\* FallbackSplitting reading recursive_splitting_config as the recursive branch does
FallbackSplitting_configured_separators ==
    /\ pc = "call"
    /\ enable_chunking
    /\ Strategy \notin KnownStrategies
    /\ Return(level2_recursive_character_splitting(text, RecursiveCfg))
    /\ UNCHANGED <<ServiceState, Arguments, AgenticState, embed_calls, embed_log, chat_calls, other_call>>

\* no branch of the dispatcher matched
FallbackSplitting ==
    /\ pc = "call"
    /\ enable_chunking
    /\ Strategy \notin KnownStrategies
    /\ Return(level2_recursive_character_splitting(text, Cfg))
    /\ UNCHANGED <<ServiceState, Arguments, AgenticState, embed_calls, embed_log, chat_calls, other_call>>

\* the arguments and locals of the running call
ThisCall ==
    [present |-> TRUE, text |-> text, enable_chunking |-> enable_chunking,
     chunking_strategy_value |-> chunking_strategy_value, chunk_size |-> chunk_size,
     chunk_overlap |-> chunk_overlap, chunking_config |-> chunking_config,
     segments |-> segments, pc |-> pc, chunks |-> chunks, derivatives |-> derivatives,
     embed_calls |-> embed_calls, embed_log |-> embed_log, chat_calls |-> chat_calls,
     sentence_batches |-> sentence_batches, batch_results |-> batch_results,
     chat_log |-> chat_log, all_chunks |-> all_chunks]

\* Switch with all_chunks kept in a module-level list that every call appends
\* to: the other call goes on with what this call has collected
Switch_shared_all_chunks ==
    /\ other_call.present
    /\ other_call' = ThisCall
    /\ text' = other_call.text
    /\ enable_chunking' = other_call.enable_chunking
    /\ chunking_strategy_value' = other_call.chunking_strategy_value
    /\ chunk_size' = other_call.chunk_size
    /\ chunk_overlap' = other_call.chunk_overlap
    /\ chunking_config' = other_call.chunking_config
    /\ segments' = other_call.segments
    /\ pc' = other_call.pc
    /\ chunks' = other_call.chunks
    /\ derivatives' = other_call.derivatives
    /\ embed_calls' = other_call.embed_calls
    /\ embed_log' = other_call.embed_log
    /\ chat_calls' = other_call.chat_calls
    /\ sentence_batches' = other_call.sentence_batches
    /\ batch_results' = other_call.batch_results
    /\ chat_log' = other_call.chat_log
    /\ all_chunks' = all_chunks
    /\ UNCHANGED ServiceState

\* Two calls are interleaved: the scheduler leaves the running call where it
\* is and goes on with the other one.  Everything chunk_text and the functions
\* it calls assign is a local of the call (the module has no global but the
\* logger and the constant AGENT_SPLIT_SYSTEM), so each call keeps its own.
Switch ==
    /\ other_call.present
    /\ other_call' = ThisCall
    /\ text' = other_call.text
    /\ enable_chunking' = other_call.enable_chunking
    /\ chunking_strategy_value' = other_call.chunking_strategy_value
    /\ chunk_size' = other_call.chunk_size
    /\ chunk_overlap' = other_call.chunk_overlap
    /\ chunking_config' = other_call.chunking_config
    /\ segments' = other_call.segments
    /\ pc' = other_call.pc
    /\ chunks' = other_call.chunks
    /\ derivatives' = other_call.derivatives
    /\ embed_calls' = other_call.embed_calls
    /\ embed_log' = other_call.embed_log
    /\ chat_calls' = other_call.chat_calls
    /\ sentence_batches' = other_call.sentence_batches
    /\ batch_results' = other_call.batch_results
    /\ chat_log' = other_call.chat_log
    /\ all_chunks' = other_call.all_chunks
    /\ UNCHANGED ServiceState

----------------------------------------------------------------------------
(* The calls the model explores *)

\* chunking_config with no key set; a list holds an optional value
NoConfig == [delimiter |-> <<>>, separators |-> <<>>,
             similarity_threshold |-> <<>>, buffer_size |-> 1,
             document_type |-> "", preserve_headers |-> TRUE,
             preserve_code_blocks |-> TRUE, preserve_lists |-> TRUE]

\* the locals of a call that has just been entered
FreshLocals ==
    /\ pc = "call"
    /\ chunks = <<>>
    /\ derivatives = <<>>
    /\ embed_calls = 0
    /\ embed_log = <<>>
    /\ chat_calls = 0
    /\ sentence_batches = <<>>
    /\ batch_results = <<>>
    /\ chat_log = <<>>
    /\ all_chunks = <<>>

\* the arguments and locals of a second call that has just been entered
FreshCall(t, enabled, strategy_value, size, overlap, config) ==
    [present |-> TRUE, text |-> t, enable_chunking |-> enabled,
     chunking_strategy_value |-> strategy_value, chunk_size |-> size,
     chunk_overlap |-> overlap, chunking_config |-> config, segments |-> <<>>,
     pc |-> "call", chunks |-> <<>>, derivatives |-> <<>>, embed_calls |-> 0,
     embed_log |-> <<>>, chat_calls |-> 0, sentence_batches |-> <<>>,
     batch_results |-> <<>>, chat_log |-> <<>>, all_chunks |-> <<>>]

\* there is no second call
NoCall == [FreshCall(<<>>, FALSE, "", 1, 0, NoConfig) EXCEPT !.present = FALSE]

\* no request has arrived and no task document exists
NoService ==
    /\ loop_start = 0
    /\ tasks = <<>>
    /\ handlers = <<>>
    /\ _queue_lock = [locked |-> FALSE, _waiters |-> <<>>]
    /\ started = <<>>

\* a single call, just entered
Fresh == FreshLocals /\ other_call = NoCall /\ NoService

\* character and recursive splitting of every short text
InitWindow ==
    /\ Fresh
    /\ enable_chunking = TRUE
    /\ chunking_strategy_value \in {"character_splitting", "recursive_character_splitting"}
    /\ text \in SeqsUpTo({"a", " ", "\n"}, MaxTextLen)
    /\ chunk_size \in 1..MaxChunkSize
    /\ chunk_overlap \in 0..MaxOverlap
    /\ chunking_config = NoConfig
    /\ segments = <<>>

NextWindow == CharacterSplitting \/ RecursiveSplitting

SpecWindow == InitWindow /\ [][NextWindow]_vars

\* literal delimiter splitting of texts joined from segments
DelimiterPool == { <<>>, <<";">>, <<"a", "a">>, <<"\n">>, <<"\\", "n">>, <<"\\">>,
                   <<"\\", "\n">> }

JoinerPool == { <<>>, <<";">>, <<"a", "a">>, <<"\n">>, <<"\\", "n">> }

InitDelimiter ==
    /\ Fresh
    /\ enable_chunking = TRUE
    /\ chunking_strategy_value = "custom_delimiter_splitting"
    /\ segments \in SeqsUpTo(SeqsUpTo({"a", "\n"}, MaxSegmentLen), MaxSegments)
    /\ \E joiner \in JoinerPool : text = Join(segments, joiner)
    /\ chunk_size \in 1..2
    /\ chunk_overlap \in {0, 1}
    /\ \E d \in DelimiterPool : chunking_config = [NoConfig EXCEPT !.delimiter = d]

NextDelimiter == CustomDelimiterSplitting

SpecDelimiter == InitDelimiter /\ [][NextDelimiter]_vars

\* table-preserving splitting of texts made of whole lines, no two lines alike
LinePool == { <<>>, <<"x", ";", "y">>, <<"|", "h">>, <<"|", "r">>,
              <<"-", "-", "-", "|", "-", "-", "-">>,
              <<"-", "-", "-", ":", "|", "-", "-", "-">> }

TableDelimiterPool == { <<>>, <<";">>, <<"\\", "n">>, <<"\\">>, <<"U3002">> }

InitTable ==
    /\ Fresh
    /\ enable_chunking = TRUE
    /\ chunking_strategy_value =
           "custom_delimiter_splitting_with_chunk_size_and_leave_table_alone"
    /\ \E lines \in SeqsUpTo(LinePool, MaxLines) :
           /\ \A i, j \in 1..Len(lines) : i # j => lines[i] # lines[j]
           /\ text = Join(lines, <<"\n">>)
    /\ chunk_size \in {2, 6}
    /\ chunk_overlap = 0
    /\ \E d \in TableDelimiterPool : chunking_config = [NoConfig EXCEPT !.delimiter = d]
    /\ segments = <<>>

NextTable == TablePreservingSplitting

SpecTable == InitTable /\ [][NextTable]_vars

\* semantic splitting of every short text
InitSemantic ==
    /\ Fresh
    /\ enable_chunking = TRUE
    /\ chunking_strategy_value \in {"semantic_splitting", "auto"}
    /\ text \in SeqsUpTo({"a", "!", " "}, MaxSentenceText)
    /\ chunk_size \in 1..3
    /\ chunk_overlap \in {0, 1}
    /\ \E th \in {<<>>, <<0>>, <<150>>} :
           chunking_config = [NoConfig EXCEPT !.similarity_threshold = th]
    /\ segments = <<>>

NextSemantic == SemanticSplitting \/ SemanticEmbeddingRaises

SpecSemantic == InitSemantic /\ [][NextSemantic]_vars

\* agentic splitting of every short text
InitAgentic ==
    /\ Fresh
    /\ enable_chunking = TRUE
    /\ chunking_strategy_value = "agentic_splitting"
    /\ text \in SeqsUpTo({"U4E2D", "!", " "}, MaxAgenticText)
    /\ chunk_size \in 1..2
    /\ chunk_overlap \in {0, 1}
    /\ chunking_config = NoConfig
    /\ segments = <<>>

NextAgentic == AgenticStart \/ AgenticChat \/ AgenticChatRaises \/ AgenticFinish

SpecAgentic == InitAgentic /\ [][NextAgentic]_vars

\* the two strategies that call the injected AI client
InitAI == InitSemantic \/ InitAgentic

NextAI == NextSemantic \/ NextAgentic

SpecAI == InitAI /\ [][NextAI]_vars

\* a call with strategy "auto" and a call with strategy "semantic_splitting",
\* all other arguments alike, in either order
InitAuto ==
    /\ FreshLocals
    /\ NoService
    /\ enable_chunking = TRUE
    /\ chunking_strategy_value = "auto"
    /\ text \in SeqsUpTo({"a", "!", " "}, MaxAutoText)
    /\ chunk_size \in 1..3
    /\ chunk_overlap \in {0, 1}
    /\ \E th \in {<<>>, <<0>>, <<150>>} :
           chunking_config = [NoConfig EXCEPT !.similarity_threshold = th]
    /\ segments = <<>>
    /\ other_call = FreshCall(text, TRUE, "semantic_splitting", chunk_size, chunk_overlap,
                              chunking_config)

NextAuto ==
    \/ SemanticSplitting
    \/ SemanticEmbeddingRaises
    \/ Switch

SpecAuto == InitAuto /\ [][NextAuto]_vars

\* every strategy value, chunking enabled or not
StrategyPool == KnownStrategies \cup {"auto", "", " ", "no_such_strategy"}

\* document types: recognised ones in either case, blank, and unrecognised ones
DocumentTypePool == {"MD", "python", "pdf", "docx", " ", "txt"}

InitDispatch ==
    /\ Fresh
    /\ enable_chunking \in BOOLEAN
    /\ chunking_strategy_value \in StrategyPool
    /\ text \in SeqsUpTo({"a", "!", "\n"}, MaxDispatchText)
    /\ chunk_size \in 1..2
    /\ chunk_overlap \in {0, 1}
    /\ \/ \E d \in {<<>>, <<"\n">>, <<"\\">>} :
              chunking_config = [NoConfig EXCEPT !.delimiter = d]
       \/ chunking_config = [NoConfig EXCEPT !.separators = << <<"!">> >>]
       \/ \E d \in DocumentTypePool :
              chunking_config = [NoConfig EXCEPT !.document_type = d]
    /\ segments = <<>>

Init == InitDispatch

Next ==
    \/ ChunkingDisabled
    \/ CharacterSplitting
    \/ RecursiveSplitting
    \/ CustomDelimiterSplitting
    \/ TablePreservingSplitting
    \/ DocumentSpecificSplitting
    \/ SemanticSplitting
    \/ SemanticEmbeddingRaises
    \/ AgenticStart
    \/ AgenticChat
    \/ AgenticChatRaises
    \/ AgenticFinish
    \/ FallbackSplitting

Spec == Init /\ [][Next]_vars

----------------------------------------------------------------------------
(* Properties *)

\* C1: with enable_chunking false, chunk_text returns exactly one chunk equal
\* to the input text and no derivatives, whatever the strategy, sizes and
\* configuration, and neither starts a splitting strategy nor calls the
\* embedding or chat client.
C1_DisabledIsIdentity ==
    ~enable_chunking =>
        /\ pc \in {"call", "returned"}
        /\ embed_calls = 0
        /\ chat_calls = 0
        /\ sentence_batches = <<>>
        /\ pc = "returned" => (chunks = <<text>> /\ derivatives = <<>>)

\* a disabled call of the agentic strategy on a text of two sentences has returned
C1_Witness ==
    /\ ~enable_chunking
    /\ pc = "returned"
    /\ Strategy = "agentic_splitting"
    /\ Len(_split_text_into_sentences(text)) = 2

\* the first chunk followed by every later chunk without its first overlap characters
Reconstructed(cs, overlap) ==
    IF cs = <<>> THEN <<>>
    ELSE cs[1] \o Concat([k \in 1..(Len(cs) - 1) |-> Slice(cs[k + 1], overlap, Len(cs[k + 1]))])

\* C2: for character_splitting and recursive_character_splitting and every
\* 0 < chunk_overlap < chunk_size, the first chunk followed by the later
\* chunks with their leading overlap characters stripped is the input text.
C2_OverlapStrippedReconstructs ==
    ( /\ pc = "returned"
      /\ Strategy \in {"character_splitting", "recursive_character_splitting"}
      /\ 0 < chunk_overlap
      /\ chunk_overlap < chunk_size )
    => Reconstructed(chunks, chunk_overlap) = text

\* the lines of the input text and the table blocks the scanner detects in it
TextLines == SplitLines(text)

TableBlocks == SelectSeq(ScanBlocks(TextLines, 1), LAMBDA b : b.type = "table")

\* no two non-blank lines of the text are equal, so that a line found in a
\* chunk is that line of the text and not another one like it
LinesDistinct ==
    \A i, j \in 1..Len(TextLines) :
        (i # j /\ TextLines[i] = TextLines[j]) => IsBlank(TextLines[i])

TableSplitReturned ==
    /\ pc = "returned"
    /\ Strategy = "custom_delimiter_splitting_with_chunk_size_and_leave_table_alone"

\* C3: in the table-preserving split every table block the scanner detects
\* appears verbatim and whole inside exactly one output chunk, and no line of
\* the table appears in any other chunk, for every chunk_size, chunk_overlap
\* and delimiter.
C3_TableInExactlyOneChunk ==
    (TableSplitReturned /\ LinesDistinct) =>
        \A t \in 1..Len(TableBlocks) :
            LET table == TableBlocks[t].content
                holders == {j \in 1..Len(chunks) : Contains(chunks[j], table)}
            IN  /\ Cardinality(holders) = 1
                /\ \A j \in 1..Len(chunks) : \A l \in 1..Len(SplitLines(table)) :
                       Contains(chunks[j], SplitLines(table)[l]) => j \in holders

\* two tables with text between them were split on the line break as delimiter
C3_Witness ==
    /\ TableSplitReturned
    /\ LinesDistinct
    /\ Len(TableBlocks) = 2
    /\ chunking_config.delimiter = <<"\\", "n">>
    /\ Len(chunks) >= 3

DelimiterSplitReturned ==
    /\ pc = "returned"
    /\ Strategy = "custom_delimiter_splitting"

\* the delimiter as the literal splitter reads it (escapes decoded)
Delimiter6 == ProcessedDelimiter6(chunking_config.delimiter)

\* the text is the segments joined with the delimiter; no segment is blank
\* and none holds the delimiter
JoinedFromSegments ==
    /\ segments # <<>>
    /\ \A k \in 1..Len(segments) : ~IsBlank(segments[k]) /\ ~Contains(segments[k], Delimiter6)
    /\ Delimiter6 # <<>>
    /\ text = Join(segments, Delimiter6)

\* the positions of the text where the joining put a delimiter
RECURSIVE JoinPositions(_, _, _)
JoinPositions(segs, d, from) ==
    IF Len(segs) <= 1 THEN {}
    ELSE {from + Len(Head(segs))} \cup JoinPositions(Tail(segs), d, from + Len(Head(segs)) + Len(d))

\* every occurrence of the delimiter in the text is one the joining put there
OnlyAtJoins ==
    {i \in 1..Len(text) : MatchAt(text, Delimiter6, i)} = JoinPositions(segments, Delimiter6, 1)

\* C4 as stated: a text joined from non-blank segments with the delimiter
\* comes back as exactly those segments, for every chunk_size and overlap
\* (read in its favour: the delimiter is not empty and no segment holds it).
C4_JoinedSegmentsComeBack ==
    (DelimiterSplitReturned /\ JoinedFromSegments) => chunks = segments

\* C4: a text joined from non-blank segments with a non-empty delimiter that
\* occurs in the text only where the joining put it comes back as exactly
\* those segments, in order and without the delimiter, whatever chunk_size
\* and chunk_overlap are (no segment is cut to a size).
C4_SegmentsComeBackWhenDelimiterOnlyAtJoins ==
    (DelimiterSplitReturned /\ JoinedFromSegments /\ OnlyAtJoins) => chunks = segments

\* two segments, one longer than chunk_size, came back
C4_Witness ==
    /\ DelimiterSplitReturned
    /\ JoinedFromSegments
    /\ OnlyAtJoins
    /\ Len(segments) = 2
    /\ \E k \in 1..2 : Len(segments[k]) > chunk_size

\* the delimiter is empty or does not occur in the text
NoDelimiterInText == chunking_config.delimiter = <<>> \/ ~Contains(text, Delimiter6)

C6_LeadingDelimiterGivesEmptyFirstChunk ==
    ( /\ DelimiterSplitReturned
      /\ Delimiter6 # <<>>
      /\ MatchAt(text, Delimiter6, 1)
      /\ \E k \in 1..Len(Split(text, Delimiter6)) :
            ~IsBlank(Split(text, Delimiter6)[k]) )
    => /\ chunks[1] = <<>>
       /\ Len(chunks) = Len(Split(text, Delimiter6))

\* the agentic call has returned
AgenticReturned == pc = "returned" /\ enable_chunking /\ Strategy = "agentic_splitting"

\* how often the character c occurs in s
Occurrences(s, c) == Len(SelectSeq(s, LAMBDA x : x = c))

\* the characters of t that are neither whitespace nor part of a separator
\* of the recursive splitter
SeparatorChars ==
    UNION {{DefaultSeparators[k][j] : j \in 1..Len(DefaultSeparators[k])} :
              k \in 1..Len(DefaultSeparators)}

ContentChars(t) == {t[i] : i \in 1..Len(t)} \ (Whitespace \cup SeparatorChars)

\* C7: the agentic splitter never drops input content: whatever the chat
\* responses were (unparsable, a parsable array, more chunks than the
\* reassembly threshold), every character of the text that is neither blank
\* nor a separator occurs in the returned chunks at least as often as in the
\* text.
C7_AgenticKeepsEveryContentCharacter ==
    AgenticReturned =>
        \A c \in ContentChars(text) :
            Occurrences(Concat(chunks) \o Concat(derivatives), c) >= Occurrences(text, c)

\* the semantic call has returned
SemanticReturned == pc = "returned" /\ enable_chunking /\ Strategy = "semantic_splitting"

\* cs is made of the sentences ss, in order, each chunk a run of whole
\* consecutive sentences put together with a space or with nothing between them
RECURSIVE Covers(_, _)
Covers(cs, ss) ==
    IF cs = <<>> THEN ss = <<>>
    ELSE \E n \in 1..Len(ss) :
            /\ \/ Head(cs) = Join(SubSeq(ss, 1, n), <<" ">>)
               \/ Head(cs) = Concat(SubSeq(ss, 1, n))
            /\ Covers(Tail(cs), SubSeq(ss, n + 1, Len(ss)))

\* C8: in semantic splitting of a text shorter than 2 x chunk_size, whatever
\* the embedding client answered, the returned chunks are runs of whole
\* consecutive sentences of the segmenter, every sentence in exactly one chunk
\* (a text of at most one sentence comes back whole as the only chunk).
C8_SemanticChunksAreWholeSentences ==
    (SemanticReturned /\ Len(text) < 2 * chunk_size) =>
        IF Len(Level4Sentences(text)) <= 1
        THEN chunks = <<text>>
        ELSE Covers(chunks, Level4Sentences(text))

\* a short text of several sentences has come back as more than one chunk,
\* one of them holding more than one sentence
C8_Witness ==
    /\ SemanticReturned
    /\ Len(text) < 2 * chunk_size
    /\ embed_calls = 1
    /\ Len(chunks) >= 2
    /\ Len(Level4Sentences(text)) > Len(chunks)

\* the agentic strategy is running or has ended
Agentic == enable_chunking /\ Strategy = "agentic_splitting"

Unparsable(response) == response.kind \in {"no_array", "invalid_json"}

\* what batch k contributes: the scalar elements of the answered array, or the
\* recursive split of the text of that batch when the answer held no array
BatchContribution(k) ==
    IF Unparsable(chat_log[k].response)
    THEN level2_recursive_character_splitting(Concat(sentence_batches[k]), Cfg)
    ELSE SelectSeq(chat_log[k].response.elems, LAMBDA x : x # NotScalar)

\* the contributions of the batches answered so far, in batch order
Contributions == Concat([k \in 1..Len(batch_results) |-> BatchContribution(k)])

\* several batches, one of them answered without a parsable array
C9Case ==
    /\ Agentic
    /\ Len(sentence_batches) >= 2
    /\ \E k \in 1..Len(chat_log) : Unparsable(chat_log[k].response)

\* C9 as stated: with several batches, one of them answered without a parsable
\* array, the returned chunks are the other batches' chunks unchanged and the
\* recursive split of that batch alone, in batch order.
C9_OnlyFailedBatchResplit ==
    (C9Case /\ pc = "returned") => chunks = Contributions

\* C9 amended: only the unparsable batch is re-split and the contributions are
\* collected in batch order; an unparsable answer never makes the call raise;
\* the returned chunks are the collected ones unchanged when they are no more
\* than the reassembly threshold and none is longer than 2 x chunk_size.
C9_FailedBatchResplitBeforeNormalisation ==
    C9Case =>
        /\ pc \in {"batches", "returned"} => all_chunks = Contributions
        /\ pc = "raised" => chat_log[Len(chat_log)].response.kind = "raise"
        /\ ( /\ pc = "returned"
             /\ Len(all_chunks) <= MaxAgenticChunks
             /\ \A k \in 1..Len(all_chunks) : Len(all_chunks[k]) <= 2 * chunk_size )
           => chunks = all_chunks

\* two batches, the first answered with an array and the second without one,
\* and the call has returned the array's chunks followed by the re-split batch
C9_Witness ==
    /\ C9Case
    /\ pc = "returned"
    /\ Len(chat_log) = 2
    /\ chat_log[1].response.kind = "array"
    /\ chat_log[1].response.elems = <<Concat(sentence_batches[1])>>
    /\ Unparsable(chat_log[2].response)
    /\ chunks = chat_log[1].response.elems
                    \o level2_recursive_character_splitting(Concat(sentence_batches[2]), Cfg)

\* the semantic strategy is running or has ended
Semantic == enable_chunking /\ Strategy = "semantic_splitting"

\* the chat calls made so far were one per batch, in batch order, and only the
\* last of them can have raised
OneChatCallPerBatchInOrder ==
    /\ chat_calls = Len(chat_log)
    /\ chat_calls <= Len(sentence_batches)
    /\ \A k \in 1..Len(chat_log) :
          /\ chat_log[k].batch = k
          /\ chat_log[k].response.kind = "raise" => (k = Len(chat_log) /\ pc = "raised")
    /\ pc = "returned" => chat_calls = Len(sentence_batches)

\* a call that raised hands no chunk list to the caller
RaiseReturnsNothing == pc = "raised" => (chunks = <<>> /\ derivatives = <<>>)

\* C10 as stated: one chat call per batch in batch order, exactly one
\* embedding call by the semantic splitter, and a raising call ends
\* chunk_text at once with no chunk list.
C10_NoRetryExactlyOneEmbeddingCall ==
    /\ Agentic => (OneChatCallPerBatchInOrder /\ embed_calls = 0)
    /\ Semantic =>
          /\ chat_calls = 0
          /\ pc \in {"returned", "raised"} => embed_calls = 1
          /\ pc = "call" => embed_calls = 0
    /\ RaiseReturnsNothing

\* C10 amended: as stated, except that the semantic splitter makes its one
\* embedding call only for a text of more than one sentence and none for a
\* text of at most one sentence, which it returns whole.
C10_NoRetryAtMostOneEmbeddingCall ==
    /\ Agentic => (OneChatCallPerBatchInOrder /\ embed_calls = 0)
    /\ Semantic =>
          /\ chat_calls = 0
          /\ pc \in {"returned", "raised"} =>
                embed_calls = (IF Len(Level4Sentences(text)) > 1 THEN 1 ELSE 0)
          /\ pc = "call" => embed_calls = 0
          /\ (pc = "raised") => Len(Level4Sentences(text)) > 1
    /\ RaiseReturnsNothing

\* the chat call of the first of two batches raised: chunk_text has raised,
\* the second batch was never called and nothing was returned
C10_Witness ==
    /\ Agentic
    /\ pc = "raised"
    /\ Len(sentence_batches) = 2
    /\ chat_calls = 1
    /\ chat_log[1].response.kind = "raise"
    /\ chunks = <<>>

\* both calls of a pair have ended
BothEnded ==
    /\ other_call.present
    /\ pc \in {"returned", "raised"}
    /\ other_call.pc \in {"returned", "raised"}

\* C11: a call with strategy "auto" and a call with strategy
\* "semantic_splitting" on the same text, sizes and configuration, answered by
\* the same deterministic embedding client, end alike: the same chunks and
\* derivatives, or both raise.
C11_AutoIsSemanticSplitting ==
    ( /\ BothEnded
      /\ {chunking_strategy_value, other_call.chunking_strategy_value}
             = {"auto", "semantic_splitting"} )
    => /\ pc = other_call.pc
       /\ chunks = other_call.chunks
       /\ derivatives = other_call.derivatives

\* the "auto" call and the "semantic_splitting" call have both returned more
\* than one chunk after one embedding call each, under a configured threshold
C11_Witness ==
    /\ BothEnded
    /\ chunking_strategy_value = "auto"
    /\ other_call.chunking_strategy_value = "semantic_splitting"
    /\ chunking_config.similarity_threshold = <<150>>
    /\ pc = "returned"
    /\ embed_calls = 1
    /\ other_call.embed_calls = 1
    /\ Len(chunks) >= 2

\* the identifiers the docstring of chunk_text lists
RecognisedStrategies == KnownStrategies \cup {"auto"}

\* the call has ended with the chunks of the recursive splitter under the
\* default separators and no derivatives
EndedAsDefaultRecursive ==
    /\ pc = "returned"
    /\ chunks = level2_recursive_character_splitting(
                    text, ChunkingConfig(chunk_size, chunk_overlap))
    /\ derivatives = <<>>

\* C12 as stated: with chunking enabled, every strategy string that is not a
\* recognised identifier gives the chunks of recursive_character_splitting
\* under the default separators, no derivatives and no error.
C12_UnrecognisedStrategyIsRecursive ==
    ( /\ enable_chunking
      /\ ~other_call.present
      /\ chunking_strategy_value \notin RecognisedStrategies
      /\ pc # "call" )
    => EndedAsDefaultRecursive

\* C12 amended: the same for every strategy string that is not empty once its
\* surrounding whitespace is stripped; no client is called on that path.
C12_UnrecognisedNonBlankStrategyIsRecursive ==
    ( /\ enable_chunking
      /\ ~other_call.present
      /\ chunking_strategy_value \notin RecognisedStrategies
      /\ StripStrategy(chunking_strategy_value) # ""
      /\ pc # "call" )
    => /\ EndedAsDefaultRecursive
       /\ embed_calls = 0
       /\ chat_calls = 0

\* an unknown strategy was given together with configured separators that
\* occur in the text, and the call has returned more than one chunk
C12_Witness ==
    /\ enable_chunking
    /\ chunking_strategy_value = "no_such_strategy"
    /\ chunking_config.separators = << <<"!">> >>
    /\ Contains(text, <<"!">>)
    /\ pc = "returned"
    /\ Len(chunks) >= 2

CustomDelimiterStrategies ==
    {"custom_delimiter_splitting",
     "custom_delimiter_splitting_with_chunk_size_and_leave_table_alone"}

RecognisedDocumentTypes == {"py", "python", "md", "markdown", "pdf"}

\* C13: a configuration error never raises. Whatever the delimiter string is, a
\* malformed backslash escape included, a call of either custom-delimiter
\* strategy does not end with an exception; and a call of the document-specific
\* strategy with an unrecognised document type returns exactly what the
\* recursive separator splitter returns on the same text and config.
C13_ConfigurationErrorNeverRaises ==
    /\ (enable_chunking /\ Strategy \in CustomDelimiterStrategies) => pc # "raised"
    /\ (/\ enable_chunking
        /\ Strategy = "document_specific_splitting"
        /\ LowerDocType(DocType) \notin RecognisedDocumentTypes
        /\ pc = "returned")
       => chunks = level2_recursive_character_splitting(text, Cfg)

\* Markdown documents made of one heading, one paragraph and one fenced code
\* block; segments keeps the three parts the text is made of
FencedBlock(open, body) == Join(<<open>> \o body \o <<FenceOf(open)>>, <<"\n">>)

InitMarkdown ==
    /\ Fresh
    /\ enable_chunking = TRUE
    /\ chunking_strategy_value = "document_specific_splitting"
    /\ \E heading \in { <<"#", " ", "T">>, <<"#", "#", " ", "T">> },
          paragraph \in { <<"p">>, <<"p", " ", "q">> },
          open \in { Backticks, Tildes, Backticks \o <<"p", "y">> },
          body \in SeqsUpTo({ <<"x">>, <<>> }, MaxCodeLines),
          gap1 \in { <<"\n">>, <<"\n", "\n">> },
          gap2 \in { <<"\n">>, <<"\n", "\n">> } :
        /\ segments = <<heading, paragraph, FencedBlock(open, body)>>
        /\ text = heading \o gap1 \o paragraph \o gap2 \o FencedBlock(open, body)
    /\ chunk_size \in 1..MaxMarkdownChunkSize
    /\ chunk_overlap \in {0, 1}
    /\ \E d \in {"markdown", "MD", ""} :
           chunking_config = [NoConfig EXCEPT !.document_type = d]

NextMarkdown == DocumentSpecificSplitting

SpecMarkdown == InitMarkdown /\ [][NextMarkdown]_vars

MarkdownReturned ==
    /\ pc = "returned"
    /\ Strategy = "document_specific_splitting"
    /\ LowerDocType(DocType) \in {"md", "markdown"}
    /\ chunking_config.preserve_headers
    /\ Len(segments) = 3

\* C14: for Markdown input made of one heading, one paragraph and one fenced
\* code block, the document-specific strategy with document type markdown and
\* preserve_headers = true returns a chunk list in which exactly one chunk
\* contains the complete fenced block, opening fence, body and closing fence.
C14_FencedBlockInExactlyOneChunk ==
    MarkdownReturned =>
        Cardinality({k \in 1..Len(chunks) : Contains(chunks[k], segments[3])}) = 1

\* the stripped non-blank pieces the delimiter cuts the text blocks into
RECURSIVE TextSegmentsOf(_, _)
TextSegmentsOf(blocks, processed_delimiter) ==
    IF blocks = <<>> THEN {}
    ELSE LET b == Head(blocks)
             pieces == IF Contains(b.content, processed_delimiter)
                       THEN Split(b.content, processed_delimiter)
                       ELSE <<b.content>>
             here == IF b.type = "table" THEN {}
                     ELSE {Strip(pieces[k]) : k \in {j \in 1..Len(pieces) : ~IsBlank(pieces[j])}}
         IN  here \cup TextSegmentsOf(Tail(blocks), processed_delimiter)

TableContents == {TableBlocks[k].content : k \in 1..Len(TableBlocks)}

\* C15: in the table-preserving custom-delimiter split, every returned text
\* chunk has length at most 2 x chunk_size unless it consists of a single
\* delimiter-separated segment.
C15_TextChunkAtMostTwiceChunkSize ==
    (TableSplitReturned /\ chunking_config.delimiter # <<>>) =>
        \A k \in 1..Len(chunks) :
            \/ chunks[k] \in TableContents
            \/ chunks[k] \in TextSegmentsOf(ScanBlocks(TextLines, 1),
                                 ProcessedDelimiterTable(chunking_config.delimiter).value)
            \/ Len(chunks[k]) <= 2 * chunk_size

----------------------------------------------------------------------------
(* Two interleaved calls with independent arguments *)

InterleavedCalls ==
    { FreshCall(t, TRUE, s, size, 0, NoConfig) :
          t \in SeqsUpTo({"a", "!"}, MaxInterleavedText),
          s \in {"character_splitting", "recursive_character_splitting", "agentic_splitting"},
          size \in 1..2 }

InitInterleaved ==
    /\ FreshLocals
    /\ NoService
    /\ \E c \in InterleavedCalls :
           /\ text = c.text
           /\ enable_chunking = c.enable_chunking
           /\ chunking_strategy_value = c.chunking_strategy_value
           /\ chunk_size = c.chunk_size
           /\ chunk_overlap = c.chunk_overlap
           /\ chunking_config = c.chunking_config
           /\ segments = c.segments
    /\ other_call \in InterleavedCalls

NextInterleaved ==
    \/ CharacterSplitting
    \/ RecursiveSplitting
    \/ AgenticStart
    \/ AgenticChat
    \/ AgenticChatRaises
    \/ AgenticFinish
    \/ Switch

SpecInterleaved == InitInterleaved /\ [][NextInterleaved]_vars

\* What a call returns when it runs alone, from its arguments and from the
\* answers its chat client gave it.
AloneConfig(c) == ChunkingConfig(c.chunk_size, c.chunk_overlap)

AloneBatches(c) ==
    _batch_sentences_for_token_limit(_split_text_into_sentences(c.text), AgenticMaxTokens)

AloneAgentic(c) ==
    IF _split_text_into_sentences(c.text) = <<>> THEN <<c.text>>
    ELSE AgenticFinal(
             Concat([k \in 1..Len(c.chat_log) |->
                        ParseResponse(c.chat_log[k].response,
                                      Concat(AloneBatches(c)[k]), AloneConfig(c))]),
             AloneConfig(c))

Alone(c) ==
    CASE c.chunking_strategy_value = "character_splitting" ->
             level1_character_splitting(c.text, AloneConfig(c))
      [] c.chunking_strategy_value = "recursive_character_splitting" ->
             level2_recursive_character_splitting(c.text, AloneConfig(c))
      [] c.chunking_strategy_value = "agentic_splitting" -> AloneAgentic(c)

ReturnsAsAlone(c) == (c.present /\ c.pc = "returned") => c.chunks = Alone(c)

----------------------------------------------------------------------------
(* The helper functions called on their own *)

\* _split_on_separators as level2_recursive_character_splitting calls it:
\* keep_delimiters = cfg.chunk_overlap > 0
SplitOnSeparators ==
    /\ pc = "call"
    /\ Return(_split_on_separators(text, RecursiveCfg.separators, chunk_overlap > 0))
    /\ UNCHANGED <<ServiceState, Arguments, AgenticState, embed_calls, embed_log, chat_calls, other_call>>

InitSeparators ==
    /\ Fresh
    /\ enable_chunking = TRUE
    /\ chunking_strategy_value = "recursive_character_splitting"
    /\ text \in SeqsUpTo({"a", " ", "\n", ","}, MaxSeparatorText)
    /\ chunk_size \in 1..2
    /\ chunk_overlap \in {0, 1}
    /\ chunking_config \in {NoConfig, [NoConfig EXCEPT !.separators = << <<",">> >>]}
    /\ segments = <<>>

NextSeparators == SplitOnSeparators

SpecSeparators == InitSeparators /\ [][NextSeparators]_vars

\* t from position i on with every separator match left out
RECURSIVE WithoutSeparators(_, _, _)
WithoutSeparators(t, pattern, i) ==
    IF i > Len(t) THEN <<>>
    ELSE LET m == FirstMatch(t, pattern, i)
         IN  IF m # <<>> THEN WithoutSeparators(t, pattern, i + Len(m))
             ELSE <<t[i]>> \o WithoutSeparators(t, pattern, i + 1)

\* C17: in the separator splitter with chunk_overlap > 0 every matched
\* separator is attached to the end of the segment that precedes it, so that
\* the segments concatenated in order give back the input text; with
\* chunk_overlap = 0 the separators are dropped and the segments concatenate to
\* the text with all separator occurrences removed.
C17_SeparatorsKeptAtSegmentEndOrDropped ==
    pc = "returned" =>
        IF chunk_overlap > 0
        THEN Concat(chunks) = text
        ELSE Concat(chunks) = WithoutSeparators(text, Pattern(RecursiveCfg.separators), 1)

\* _by_max_tokens called with a list of fragments; segments holds the fragments
ByMaxTokens ==
    /\ pc = "call"
    /\ Return(_by_max_tokens(segments, chunk_size, chunk_overlap))
    /\ UNCHANGED <<ServiceState, Arguments, AgenticState, embed_calls, embed_log, chat_calls, other_call>>

InitPack ==
    /\ Fresh
    /\ enable_chunking = TRUE
    /\ chunking_strategy_value = "recursive_character_splitting"
    /\ segments \in SeqsUpTo(SeqsUpTo({"a", "b"}, MaxFragmentLen), MaxFragments)
    /\ text = Concat(segments)
    /\ chunk_size \in 1..MaxPackSize
    /\ chunk_overlap \in {0, 1}
    /\ chunking_config = NoConfig

NextPack == ByMaxTokens

SpecPack == InitPack /\ [][NextPack]_vars

\* C18: _by_max_tokens with overlap = 0 introduces no duplicate text: for every
\* list of fragments and every size > 0 the returned chunks concatenate to the
\* concatenation of the fragments, and every returned chunk is at most size long.
C18_PackingWithoutOverlapKeepsTextOnce ==
    (pc = "returned" /\ chunk_overlap = 0 /\ chunk_size > 0) =>
        /\ Concat(chunks) = Concat(segments)
        /\ \A k \in 1..Len(chunks) : Len(chunks[k]) <= chunk_size

\* without overlap, a fragment longer than size was windowed and the buffer
\* was flushed before the last fragment: the chunks are not the fragments
C18_Witness ==
    /\ pc = "returned"
    /\ chunk_overlap = 0
    /\ chunk_size >= 2
    /\ Len(segments) >= 2
    /\ \A k \in 1..Len(segments) : segments[k] # <<>>
    /\ \E k \in 1..Len(segments) : Len(segments[k]) > chunk_size
    /\ \E k \in 1..Len(segments) : Len(segments[k]) < chunk_size
    /\ Len(chunks) >= 2
    /\ chunks # segments
    /\ Concat(chunks) = Concat(segments)

\* _windowed called on its own, with any size and any overlap
Windowed ==
    /\ pc = "call"
    /\ Return(_windowed(text, chunk_size, chunk_overlap))
    /\ UNCHANGED <<ServiceState, Arguments, AgenticState, embed_calls, embed_log, chat_calls, other_call>>

InitWindowed ==
    /\ Fresh
    /\ enable_chunking = TRUE
    /\ chunking_strategy_value = "character_splitting"
    /\ text \in SeqsUpTo({"a", "b"}, MaxWindowedText)
    /\ chunk_size \in -1..MaxWindowedSize
    /\ chunk_overlap \in 0..(MaxWindowedSize + 1)
    /\ chunking_config = NoConfig
    /\ segments = <<>>

NextWindowed == Windowed

SpecWindowed == InitWindowed /\ [][NextWindowed]_vars

\* the overlap the window moves back by: size - 1 when overlap >= size
EffectiveOverlap == IF chunk_overlap >= chunk_size THEN chunk_size - 1 ELSE chunk_overlap

\* C19: _windowed with size <= 0 returns the whole text as one chunk; with
\* size > 0 and overlap >= size it returns what it returns for overlap = size - 1;
\* and for size > 0 every chunk is at most size long and chunk k, counted from
\* 0, is the slice of the text that starts at k x (size - effective overlap).
C19_WindowedSlicesAtFixedStep ==
    pc = "returned" =>
        /\ chunk_size <= 0 => chunks = <<text>>
        /\ (chunk_size > 0 /\ chunk_overlap >= chunk_size)
               => chunks = _windowed(text, chunk_size, chunk_size - 1)
        /\ chunk_size > 0 =>
               \A k \in 1..Len(chunks) :
                   LET start == (k - 1) * (chunk_size - EffectiveOverlap)
                   IN  /\ Len(chunks[k]) <= chunk_size
                       /\ chunks[k] = Slice(text, start, Min(Len(text), start + chunk_size))

\* an overlap larger than the size was clamped and the window moved over the
\* text one character at a time
C19_Witness ==
    /\ pc = "returned"
    /\ chunk_size >= 2
    /\ chunk_overlap > chunk_size
    /\ Len(chunks) >= 3
    /\ chunks[2] = Slice(text, 1, 1 + chunk_size)
    /\ \E i, j \in 1..Len(text) : text[i] # text[j]

\* _split_large_semantic_chunk called as level4_semantic_splitting calls it:
\* segments holds the sentences of one semantic chunk and text their join
SplitLargeSemanticChunk ==
    /\ pc = "call"
    /\ Return(_split_large_semantic_chunk(text, segments, chunk_size, chunk_overlap))
    /\ UNCHANGED <<ServiceState, Arguments, AgenticState, embed_calls, embed_log, chat_calls, other_call>>

SentencePool == { <<"a", "!">>, <<"b", "!">>, <<"a", "b", "!">> }

InitRepack ==
    /\ Fresh
    /\ enable_chunking = TRUE
    /\ chunking_strategy_value = "semantic_splitting"
    /\ segments \in SeqsUpTo(SentencePool, MaxRepackSentences)
    /\ text = Join(segments, <<" ">>)
    /\ chunk_size \in 1..MaxRepackSize
    /\ chunk_overlap \in {0, 1}
    /\ chunking_config = NoConfig

NextRepack == SplitLargeSemanticChunk

SpecRepack == InitRepack /\ [][NextRepack]_vars

IsPrefix(p, s) == Len(p) <= Len(s) /\ SubSeq(s, 1, Len(p)) = p

IsSuffix(p, s) == Len(p) <= Len(s) /\ SubSeq(s, Len(s) - Len(p) + 1, Len(s)) = p

\* c is made of the sentences i..j, whole and in order
WholeSentences(c) ==
    \E i \in 1..Len(segments) : \E j \in i..Len(segments) :
        c = Concat(SubSeq(segments, i, j))

\* a semantic chunk longer than 2 x chunk_size was re-packed
Repacked == pc = "returned" /\ Len(text) > 2 * chunk_size

\* C20: when a semantic chunk longer than 2 x chunk_size is re-packed and
\* chunk_overlap > 0, every sub-chunk after the first begins with the last
\* sentence of the sub-chunk before it; when chunk_overlap = 0 no sentence
\* appears in two sub-chunks; in both cases a sub-chunk holds whole sentences
\* only.
C20_RepackOverlapsByOneSentence ==
    Repacked =>
        /\ chunk_overlap > 0 =>
               \A k \in 2..Len(chunks) :
                   \E j \in 1..Len(segments) :
                       /\ IsSuffix(segments[j], chunks[k - 1])
                       /\ IsPrefix(segments[j], chunks[k])
        /\ chunk_overlap = 0 => Concat(chunks) = Concat(segments)
        /\ \A k \in 1..Len(chunks) : WholeSentences(chunks[k])

\* the chunks the final pass of the agentic splitter is given: all_chunks, or
\* their recursive re-split when there are more than the reassembly threshold
BeforeFinalPass ==
    IF Len(all_chunks) > MaxAgenticChunks
    THEN level2_recursive_character_splitting(Join(all_chunks, <<"\n", "\n">>), Cfg)
    ELSE all_chunks

\* the final pass ran: the text has sentences and every batch was answered
FinalPassRan == AgenticReturned /\ sentence_batches # <<>>

\* C21: for every text, every chat-client response sequence and every
\* chunk_size > 0, every chunk the agentic splitter returns is at most
\* 2 x chunk_size long, a chunk above that having been re-windowed into pieces
\* of at most chunk_size, and the chunks at or below 2 x chunk_size are
\* returned unchanged.
C21_AgenticChunksAtMostTwiceChunkSize ==
    /\ (AgenticReturned /\ chunk_size > 0) =>
           \A k \in 1..Len(chunks) : Len(chunks[k]) <= 2 * chunk_size
    /\ (FinalPassRan /\ chunk_size > 0) =>
           /\ \A k \in 1..Len(chunks) :
                  \/ Len(chunks[k]) <= chunk_size
                  \/ \E j \in 1..Len(BeforeFinalPass) : BeforeFinalPass[j] = chunks[k]
           /\ (\A j \in 1..Len(BeforeFinalPass) : Len(BeforeFinalPass[j]) <= 2 * chunk_size)
                  => chunks = BeforeFinalPass

\* C21 amended: the bound holds for every text that has at least one sentence;
\* a text without a sentence is returned whole, whatever its length.
C21_AgenticChunksAtMostTwiceChunkSizeAfterFinalPass ==
    /\ (FinalPassRan /\ chunk_size > 0) =>
           LET before == BeforeFinalPass
           IN  /\ \A k \in 1..Len(chunks) : Len(chunks[k]) <= 2 * chunk_size
               /\ \A k \in 1..Len(chunks) :
                      \/ Len(chunks[k]) <= chunk_size
                      \/ \E j \in 1..Len(before) : before[j] = chunks[k]
               /\ (\A j \in 1..Len(before) : Len(before[j]) <= 2 * chunk_size)
                      => chunks = before
    /\ (AgenticReturned /\ sentence_batches = <<>>) => chunks = <<text>>

\* the chat client answered with one chunk longer than 2 x chunk_size next to
\* nothing else, and the call returned its windows
C21_Witness ==
    /\ FinalPassRan
    /\ \E j \in 1..Len(all_chunks) : Len(all_chunks[j]) > 2 * chunk_size
    /\ Len(chunks) > Len(all_chunks)
    /\ \A k \in 1..Len(chunks) : Len(chunks[k]) <= chunk_size

\* the estimated token counts of the sentences of a batch, added up
RECURSIVE TotalTokens(_)
TotalTokens(batch) ==
    IF batch = <<>> THEN 0
    ELSE _estimate_token_count(Head(batch)) + TotalTokens(Tail(batch))

\* the agentic call has batched the sentences of its text
Batched == enable_chunking /\ Strategy = "agentic_splitting" /\ sentence_batches # <<>>

\* C22: sentence batching for the agentic splitter is an order-preserving
\* partition: no batch is empty, the batches concatenated in order are the
\* sentence list, and every batch of more than one sentence has a total
\* estimated token count at most the budget (only a single oversized sentence
\* makes a batch exceed it).
C22_BatchesPartitionSentencesWithinBudget ==
    Batched =>
        /\ \A k \in 1..Len(sentence_batches) : sentence_batches[k] # <<>>
        /\ Concat(sentence_batches) = _split_text_into_sentences(text)
        /\ \A k \in 1..Len(sentence_batches) :
               Len(sentence_batches[k]) > 1 => TotalTokens(sentence_batches[k]) <= AgenticMaxTokens

\* a batch of several sentences within the budget and a batch made of a single
\* sentence above the budget
C22_Witness ==
    /\ Batched
    /\ Len(sentence_batches) >= 2
    /\ \E k \in 1..Len(sentence_batches) :
           /\ Len(sentence_batches[k]) > 1
           /\ TotalTokens(sentence_batches[k]) > 0
    /\ \E k \in 1..Len(sentence_batches) :
           /\ Len(sentence_batches[k]) = 1
           /\ TotalTokens(sentence_batches[k]) > AgenticMaxTokens

\* the tables and the stripped non-blank text pieces of the document, in
\* document order
RECURSIVE DocumentItems(_, _)
DocumentItems(blocks, processed_delimiter) ==
    IF blocks = <<>> THEN <<>>
    ELSE LET b == Head(blocks)
             pieces == IF processed_delimiter # <<>> /\ Contains(b.content, processed_delimiter)
                       THEN Split(b.content, processed_delimiter)
                       ELSE <<b.content>>
             kept == SelectSeq(pieces, LAMBDA p : ~IsBlank(p))
             here == IF b.type = "table" THEN <<[type |-> "table", content |-> b.content]>>
                     ELSE [k \in 1..Len(kept) |-> [type |-> "text", content |-> Strip(kept[k])]]
         IN  here \o DocumentItems(Tail(blocks), processed_delimiter)

\* the chunks an item of the document is found in: the chunks that are the
\* table, or the chunks that contain the text piece
ChunksOf(item) ==
    IF item.type = "table" THEN {k \in 1..Len(chunks) : chunks[k] = item.content}
    ELSE {k \in 1..Len(chunks) : Contains(chunks[k], item.content)}

TablesAloneInDocumentOrder(items) ==
    /\ \A i \in 1..Len(items) : ChunksOf(items[i]) # {}
    /\ \A i \in 1..Len(items) : items[i].type = "table" =>
           \A k \in 1..Len(chunks) : Contains(chunks[k], items[i].content)
                                         => chunks[k] = items[i].content
    /\ \A i, j \in 1..Len(items) :
           (i < j /\ "table" \in {items[i].type, items[j].type}) =>
               \A k \in ChunksOf(items[i]) : \A m \in ChunksOf(items[j]) : k < m

\* C23: in the table-preserving custom-delimiter split each detected table is
\* emitted as a chunk that contains the table and nothing else, never merged
\* with text or with another table, and the chunks are in document order: the
\* text before a table is emitted before it and the text after it after it.
C23_TablesAloneInDocumentOrder ==
    TableSplitReturned =>
        TablesAloneInDocumentOrder(
            DocumentItems(ScanBlocks(TextLines, 1),
                          ProcessedDelimiterTable(chunking_config.delimiter).value))

\* C23 amended: the same, for a delimiter that is not empty; with an empty
\* delimiter the whole text, tables included, is returned as one chunk.
C23_TablesAloneInDocumentOrderUnlessNoDelimiter ==
    TableSplitReturned =>
        IF chunking_config.delimiter = <<>> THEN chunks = <<text>>
        ELSE TablesAloneInDocumentOrder(
                 DocumentItems(ScanBlocks(TextLines, 1),
                               ProcessedDelimiterTable(chunking_config.delimiter).value))

\* a table, text that the delimiter splits in two, a second table: the first
\* table is the first chunk, the second table the last, the text in between
C23_Witness ==
    /\ TableSplitReturned
    /\ chunking_config.delimiter = <<";">>
    /\ Len(TableBlocks) = 2
    /\ Len(chunks) = 4
    /\ chunks[1] = TableBlocks[1].content
    /\ chunks[2] = <<"x">>
    /\ chunks[3] = <<"y">>
    /\ chunks[4] = TableBlocks[2].content

----------------------------------------------------------------------------
(* Markdown documents of every structure *)

\* lines of the kinds the scanner tells apart: blank, heading, paragraph, list
\* item, fence, blockquote, table row and alignment row
MarkdownLinePool ==
    { <<>>, <<"#", " ", "T">>, <<"p">>, <<"-", " ", "a">>,
      Backticks, <<">", " ", "q">>, <<"|", "h">>,
      <<"-", "-", "-", "|", "-", "-", "-">> }

InitMarkdownLines ==
    /\ Fresh
    /\ enable_chunking = TRUE
    /\ chunking_strategy_value = "document_specific_splitting"
    /\ segments \in SeqsUpTo(MarkdownLinePool, MaxMarkdownLines)
    /\ text = Join(segments, <<"\n">>)
    /\ chunk_size \in {2, MaxMarkdownChunkSize}
    /\ chunk_overlap = 0
    /\ \E h, c, l \in BOOLEAN :
           chunking_config = [NoConfig EXCEPT !.document_type = "markdown",
                                              !.preserve_headers = h,
                                              !.preserve_code_blocks = c,
                                              !.preserve_lists = l]

NextMarkdownLines == DocumentSpecificSplitting

SpecMarkdownLines == InitMarkdownLines /\ [][NextMarkdownLines]_vars

MarkdownLinesReturned ==
    /\ pc = "returned"
    /\ Strategy = "document_specific_splitting"
    /\ LowerDocType(DocType) = "markdown"

\* C24: the output of the Markdown splitter does not depend on
\* preserve_code_blocks or preserve_lists: for every text, config and
\* preserve_headers value, all four combinations of the two flags return the
\* identical chunk list.
C24_MarkdownOutputIgnoresCodeAndListFlags ==
    MarkdownLinesReturned =>
        \A c, l \in BOOLEAN :
            chunks = _split_markdown(text, Cfg, [DocOptions EXCEPT !.preserve_code_blocks = c,
                                                                   !.preserve_lists = l])

\* a document with a fenced code block under a heading was split with headers
\* preserved and both flags off, and the code block is in the chunk
C24_Witness ==
    /\ MarkdownLinesReturned
    /\ chunking_config.preserve_headers
    /\ ~chunking_config.preserve_code_blocks
    /\ ~chunking_config.preserve_lists
    /\ segments = << <<"#", " ", "T">>, Backticks, <<"-", " ", "a">> >>
    /\ chunk_size = MaxMarkdownChunkSize
    /\ chunks = << segments[1] \o <<"\n", "\n">> \o Backticks \o <<"\n">> \o segments[3] >>

\* the lines of the blocks, block after block
RECURSIVE BlockLines(_)
BlockLines(blocks) ==
    IF blocks = <<>> THEN <<>>
    ELSE Split(Head(blocks).content, <<"\n">>) \o BlockLines(Tail(blocks))

\* a code block whose opening fence is never closed inside the block
Unclosed(b) ==
    LET ls == Split(b.content, <<"\n">>)
    IN  /\ b.type = "code"
        /\ \A k \in 2..Len(ls) : ~IsFenceClose(ls[k], FenceOf(ls[1]))

\* C29: the Markdown structural scanner terminates on every input and
\* partitions the lines: every input line is placed in exactly one block, the
\* blocks are in source order, every block holds at least one line, and an
\* opening code fence with no closing fence consumes all remaining lines into
\* one code block.
C29_ScannerPartitionsLines ==
    MarkdownLinesReturned =>
        LET lines == SplitLines(text)
            blocks == MarkdownBlocks(lines, 1)
        IN  /\ BlockLines(blocks) = lines
            /\ Len(blocks) <= Len(lines)
            /\ \A k \in 1..Len(blocks) : Unclosed(blocks[k]) => k = Len(blocks)

\* a heading, then a fence that is never closed: the fence and the line after
\* it are one code block, the last
C29_Witness ==
    /\ MarkdownLinesReturned
    /\ segments = << <<"#", " ", "T">>, Backticks, <<"p">> >>
    /\ MarkdownBlocks(SplitLines(text), 1)
           = << [type |-> "heading", content |-> <<"#", " ", "T">>],
                [type |-> "code", content |-> Backticks \o <<"\n", "p">>] >>

----------------------------------------------------------------------------
(* _windowed, one iteration of its loop at a time *)

\* an overlap that is not smaller than size is left as it is
AdjustedOverlap_unadjusted(size, overlap) == overlap

\* if overlap >= size: overlap = max(0, size - 1)
AdjustedOverlap(size, overlap) == IF overlap >= size THEN Max(0, size - 1) ELSE overlap

\* the call up to the loop: size <= 0 returns the text whole
WindowedEnter ==
    /\ pc = "call"
    /\ IF chunk_size <= 0
       THEN Return(<<text>>) /\ UNCHANGED loop_start
       ELSE /\ pc' = "loop"
            /\ chunks' = <<>>
            /\ loop_start' = 0
            /\ UNCHANGED derivatives
    /\ UNCHANGED <<tasks, handlers, _queue_lock, started>>
    /\ UNCHANGED <<Arguments, AgenticState, embed_calls, embed_log, chat_calls, other_call>>

\* one iteration: the slice from start is appended, and the loop breaks when
\* the slice reaches the end of the text
WindowedIterate ==
    /\ pc = "loop"
    /\ loop_start < Len(text)
    /\ LET end == Min(Len(text), loop_start + chunk_size)
       IN  /\ chunks' = Append(chunks, Slice(text, loop_start, end))
           /\ IF end >= Len(text)
              THEN pc' = "returned" /\ UNCHANGED loop_start
              ELSE /\ loop_start' = end - AdjustedOverlap(chunk_size, chunk_overlap)
                   /\ UNCHANGED pc
    /\ UNCHANGED <<derivatives, tasks, handlers, _queue_lock, started>>
    /\ UNCHANGED <<Arguments, AgenticState, embed_calls, embed_log, chat_calls, other_call>>

\* the loop condition fails
WindowedExit ==
    /\ pc = "loop"
    /\ ~(loop_start < Len(text))
    /\ pc' = "returned"
    /\ UNCHANGED <<chunks, derivatives>>
    /\ UNCHANGED <<ServiceState, Arguments, AgenticState, embed_calls, embed_log, chat_calls,
                   other_call>>

InitWindowSteps ==
    /\ Fresh
    /\ enable_chunking = TRUE
    /\ chunking_strategy_value = "character_splitting"
    /\ text \in SeqsUpTo({"a", "b"}, MaxStepText)
    /\ chunk_size \in 0..MaxStepSize
    /\ chunk_overlap \in 0..(MaxStepSize + 1)
    /\ chunking_config = NoConfig
    /\ segments = <<>>

NextWindowSteps == WindowedEnter \/ WindowedIterate \/ WindowedExit

\* a call that has begun goes on: the loop is sequential code
SpecWindowSteps == InitWindowSteps /\ [][NextWindowSteps]_vars /\ WF_vars(NextWindowSteps)

\* C28: _windowed terminates for every text, every size > 0 and every
\* overlap >= 0: the start index strictly increases from one iteration to the
\* next, the call returns, and for a text that is not empty the last chunk
\* ends at the end of the text.
C28_WindowedTerminates ==
    /\ [][(pc = "loop" /\ pc' = "loop") => loop_start' > loop_start]_vars
    /\ <>(pc = "returned")
    /\ [](pc = "returned" /\ chunk_size > 0 /\ text # <<>>
             => /\ chunks # <<>>
                /\ loop_start + Len(chunks[Len(chunks)]) = Len(text))

\* a call with an overlap above size has returned after three iterations or more
C28_Witness ==
    /\ pc = "returned"
    /\ chunk_size > 0
    /\ chunk_overlap > chunk_size
    /\ Len(chunks) >= 3
    /\ loop_start > 0

\* the distances between the embeddings the client answered with, in hundredths
ObservedDistances == Distances(embed_log[1].vectors)

\* the boundaries the call placed between sentences, counted from 0
PlacedBoundaries ==
    LET all == BoundaryIndices(ObservedDistances,
                               EffectiveThreshold(ObservedDistances, SimilarityDrop),
                               Len(Level4Sentences(text)))
    IN  SubSeq(all, 2, Len(all) - 1)

AllDistancesEqual == \A i, j \in 1..Len(ObservedDistances) : ObservedDistances[i] = ObservedDistances[j]

----------------------------------------------------------------------------
(* The task documents of TaskManager (app/core/task_manager.py) *)

TaskIds == {"t1", "t2", "t3"}

\* the fields of a task document the service reads: result and
\* process_json_result tell whether the result payload is stored at the top
\* level and in the process_json section, errors whether an error is stored
NoDoc == [exists |-> FALSE, status |-> "", files |-> FALSE, result |-> FALSE,
          process_json_result |-> FALSE, errors |-> FALSE]

TerminalStatuses == {"completed", "failed", "cancelled"}

_count_active_from_fs(ts) ==
    Cardinality({t \in DOMAIN ts : ts[t].exists /\ ts[t].status \in {"active", "processing"}})

_decide_initial_status_fs(ts) ==
    IF _count_active_from_fs(ts) < max_concurrent_tasks THEN "active" ELSE "pending"

\* the document create_task_from_request leaves: an existing one keeps its
\* fields and re-enters the queue when it had ended, a new one has no files
DocFromRequest(ts, t) ==
    IF ts[t].exists
    THEN IF ts[t].status \in TerminalStatuses
         THEN [ts[t] EXCEPT !.status = _decide_initial_status_fs(ts), !.errors = FALSE]
         ELSE ts[t]
    ELSE [NoDoc EXCEPT !.exists = TRUE, !.status = _decide_initial_status_fs(ts)]

create_task_from_request(ts, t) == [ts EXCEPT ![t] = DocFromRequest(ts, t)]

\* create_task for an id that is not taken: a document with no files yet
create_task(ts, t) ==
    [ts EXCEPT ![t] = [NoDoc EXCEPT !.exists = TRUE, !.status = _decide_initial_status_fs(ts)]]

\* start_task, for a task it starts
start_task(ts, t) == [ts EXCEPT ![t].status = "active"]

\* complete_task
complete_task(ts, t, success, error_message) ==
    [ts EXCEPT ![t].status = IF success THEN "completed" ELSE "failed"]

\* cancel_task, for a task it cancels
cancel_task(ts, t) == [ts EXCEPT ![t].status = "cancelled"]

\* task["status"] = status.value; task.update(kwargs)
WithStatus(doc, status, kwargs) ==
    [doc EXCEPT !.status = status,
                !.result = IF "result" \in kwargs THEN TRUE ELSE @,
                !.errors = IF "errors" \in kwargs THEN TRUE ELSE @]

\* update_task_status on a document that exists
update_task_status(ts, t, status, kwargs) ==
    [ts EXCEPT ![t] = WithStatus(ts[t], status, kwargs)]

\* update_section(task_id, "process_json", {"result": ...})
WithSectionResult(doc) == [doc EXCEPT !.process_json_result = TRUE]

----------------------------------------------------------------------------
(* The processing endpoints (app/api/routes/file_process.py) *)

Endpoints == {"/file/process", "/file/read", "/file/chunk", "/file/summarize", "/file/extract"}

\* the endpoints that call start_job inside "async with _queue_lock"
LockedEndpoints == {"/file/process", "/file/read"}

\* asyncio.Lock.acquire taking the lock although handlers are waiting for it
CanAcquire_barging(lock) == ~lock.locked

\* asyncio.Lock.acquire takes the lock at once only when it is free and
\* nobody waits for it
CanAcquire(lock) == ~lock.locked /\ lock._waiters = <<>>

\* a handler in flight: its task, its position, whether its start_job is
\* called inside the lock ("locked") or not ("direct"), and whether a call of
\* its own follows the /file/read it made
Handler(t, position, job, then_direct) ==
    [task_id |-> t, pc |-> position, job |-> job, then_direct |-> then_direct]

\* A request arrives and its handler runs up to its first suspension:
\* /file/process and /file/read save the request and enter the lock; the other
\* three first call the /file/read handler when the task does not exist, and
\* otherwise save the request and hand start_job to the thread pool at once.
Submit(endpoint, t) ==
    /\ Len(handlers) < MaxRequests
    /\ LET h == Len(handlers) + 1
           reads_first == endpoint \notin LockedEndpoints /\ ~tasks[t].exists
       IN  /\ tasks' = create_task_from_request(tasks, t)
           /\ IF endpoint \in LockedEndpoints \/ reads_first
              THEN IF CanAcquire(_queue_lock)
                   THEN /\ _queue_lock' = [_queue_lock EXCEPT !.locked = TRUE]
                        /\ handlers' = Append(handlers,
                               Handler(t, "scheduled", "locked", reads_first))
                   ELSE /\ _queue_lock' = [_queue_lock EXCEPT !._waiters = Append(@, h)]
                        /\ handlers' = Append(handlers,
                               Handler(t, "waiting", "locked", reads_first))
              ELSE /\ handlers' = Append(handlers,
                               Handler(t, "scheduled", "direct", FALSE))
                   /\ UNCHANGED _queue_lock
    /\ UNCHANGED <<loop_start, started>>
    /\ UNCHANGED <<Arguments, AgenticState, pc, chunks, derivatives, embed_calls, embed_log,
                   chat_calls, other_call>>

\* a thread of the pool begins start_job: the task is marked as processing
JobStart(h) ==
    /\ handlers[h].pc = "scheduled"
    /\ handlers' = [handlers EXCEPT ![h].pc = "running"]
    /\ started' = Append(started, [handler |-> h, job |-> handlers[h].job])
    /\ tasks' = update_task_status(tasks, handlers[h].task_id, "processing", {})
    /\ UNCHANGED <<loop_start, _queue_lock>>
    /\ UNCHANGED <<Arguments, AgenticState, pc, chunks, derivatives, embed_calls, embed_log,
                   chat_calls, other_call>>

\* start_job ends: failed when the task has no files or a step raised,
\* otherwise completed with the result stored in both places
JobFinish(h) ==
    /\ handlers[h].pc = "running"
    /\ handlers' = [handlers EXCEPT ![h].pc = "finished"]
    /\ LET t == handlers[h].task_id
       IN  \/ tasks' = update_task_status(tasks, t, "failed", {"errors"})
           \/ /\ tasks[t].files
              /\ tasks' = update_task_status([tasks EXCEPT ![t] = WithSectionResult(@)],
                                             t, "completed", {"result"})
    /\ UNCHANGED <<loop_start, _queue_lock, started>>
    /\ UNCHANGED <<Arguments, AgenticState, pc, chunks, derivatives, embed_calls, embed_log,
                   chat_calls, other_call>>

\* The handler goes on after the await.  Leaving "async with" releases the
\* lock and wakes the first waiter; a handler that called /file/read on its
\* own account then saves its request and hands its start_job to the pool.
Resume(h) ==
    /\ handlers[h].pc = "finished"
    /\ LET mine == IF handlers[h].then_direct
                   THEN [handlers[h] EXCEPT !.pc = "scheduled", !.job = "direct",
                                            !.then_direct = FALSE]
                   ELSE [handlers[h] EXCEPT !.pc = "done"]
           first == IF _queue_lock._waiters = <<>> THEN 0 ELSE Head(_queue_lock._waiters)
       IN  /\ handlers' = [k \in 1..Len(handlers) |->
                              IF k = h THEN mine
                              ELSE IF handlers[h].job = "locked" /\ k = first
                              THEN [handlers[k] EXCEPT !.pc = "woken"]
                              ELSE handlers[k]]
           /\ _queue_lock' = IF handlers[h].job = "locked"
                             THEN [_queue_lock EXCEPT !.locked = FALSE]
                             ELSE _queue_lock
           /\ tasks' = IF handlers[h].then_direct
                       THEN create_task_from_request(tasks, handlers[h].task_id)
                       ELSE tasks
    /\ UNCHANGED <<loop_start, started>>
    /\ UNCHANGED <<Arguments, AgenticState, pc, chunks, derivatives, embed_calls, embed_log,
                   chat_calls, other_call>>

\* a woken waiter runs: it leaves the waiters, takes the lock and hands
\* start_job to the pool
Wake(h) ==
    /\ handlers[h].pc = "woken"
    /\ handlers' = [handlers EXCEPT ![h].pc = "scheduled"]
    /\ _queue_lock' = [locked |-> TRUE,
                       _waiters |-> SelectSeq(_queue_lock._waiters, LAMBDA k : k # h)]
    /\ UNCHANGED <<loop_start, tasks, started>>
    /\ UNCHANGED <<Arguments, AgenticState, pc, chunks, derivatives, embed_calls, embed_log,
                   chat_calls, other_call>>

\* the requests of the queue specification are for one task
QueueTaskIds == {"t1"}

\* the service with no request yet; a task has been uploaded with files or
\* does not exist
InitQueue ==
    /\ FreshLocals
    /\ other_call = NoCall
    /\ text = <<>>
    /\ enable_chunking = FALSE
    /\ chunking_strategy_value = ""
    /\ chunk_size = 1
    /\ chunk_overlap = 0
    /\ chunking_config = NoConfig
    /\ segments = <<>>
    /\ loop_start = 0
    /\ \E uploaded \in SUBSET QueueTaskIds :
           tasks = [t \in QueueTaskIds |->
                       IF t \in uploaded
                       THEN [NoDoc EXCEPT !.exists = TRUE, !.status = "active", !.files = TRUE]
                       ELSE NoDoc]
    /\ handlers = <<>>
    /\ _queue_lock = [locked |-> FALSE, _waiters |-> <<>>]
    /\ started = <<>>

NextQueue ==
    \/ \E endpoint \in Endpoints, t \in DOMAIN tasks : Submit(endpoint, t)
    \/ \E h \in 1..Len(handlers) : JobStart(h)
    \/ \E h \in 1..Len(handlers) : JobFinish(h)
    \/ \E h \in 1..Len(handlers) : Resume(h)
    \/ \E h \in 1..Len(handlers) : Wake(h)

SpecQueue == InitQueue /\ [][NextQueue]_vars

\* the handlers whose start_job is executing
RunningJobs == {h \in 1..Len(handlers) : handlers[h].pc = "running"}

----------------------------------------------------------------------------
(* The operations of the task manager, called in any order *)

TaskStatus == {"created", "pending", "active", "processing", "completed", "failed", "cancelled"}

ServiceUnchanged ==
    UNCHANGED <<Arguments, AgenticState, pc, chunks, derivatives, embed_calls, embed_log,
                chat_calls, other_call, loop_start, _queue_lock, started>>

CreateTask(t) ==
    /\ ~tasks[t].exists
    /\ tasks' = create_task(tasks, t)
    /\ UNCHANGED handlers
    /\ ServiceUnchanged

CreateTaskFromRequest(t) ==
    /\ tasks' = create_task_from_request(tasks, t)
    /\ UNCHANGED handlers
    /\ ServiceUnchanged

\* start_task returns False and changes nothing unless the task exists, a
\* slot is free and the task is created or pending
StartTask(t) ==
    /\ tasks[t].exists
    /\ _count_active_from_fs(tasks) < max_concurrent_tasks
    /\ tasks[t].status \in {"created", "pending"}
    /\ tasks' = start_task(tasks, t)
    /\ UNCHANGED handlers
    /\ ServiceUnchanged

\* start_job is called for a task whose document exists
CallStartJob(t) ==
    /\ Len(handlers) < MaxJobs
    /\ tasks[t].exists
    /\ handlers' = Append(handlers, Handler(t, "scheduled", "direct", FALSE))
    /\ UNCHANGED tasks
    /\ ServiceUnchanged

UpdateTaskStatus(t, status) ==
    /\ tasks[t].exists
    /\ tasks' = update_task_status(tasks, t, status, {})
    /\ UNCHANGED handlers
    /\ ServiceUnchanged

CompleteTask(t, success) ==
    /\ tasks[t].exists
    /\ tasks' = complete_task(tasks, t, success, "")
    /\ UNCHANGED handlers
    /\ ServiceUnchanged

\* cancel_task returns False and changes nothing for a task that has ended
CancelTask(t) ==
    /\ tasks[t].exists
    /\ tasks[t].status \notin TerminalStatuses
    /\ tasks' = cancel_task(tasks, t)
    /\ UNCHANGED handlers
    /\ ServiceUnchanged

InitTasks ==
    /\ FreshLocals
    /\ other_call = NoCall
    /\ text = <<>>
    /\ enable_chunking = FALSE
    /\ chunking_strategy_value = ""
    /\ chunk_size = 1
    /\ chunk_overlap = 0
    /\ chunking_config = NoConfig
    /\ segments = <<>>
    /\ loop_start = 0
    /\ tasks = [t \in TaskIds |-> NoDoc]
    /\ handlers = <<>>
    /\ _queue_lock = [locked |-> FALSE, _waiters |-> <<>>]
    /\ started = <<>>

NextTasks ==
    \/ \E t \in TaskIds : CreateTask(t)
    \/ \E t \in TaskIds : CreateTaskFromRequest(t)
    \/ \E t \in TaskIds : StartTask(t)
    \/ \E t \in TaskIds : CallStartJob(t)
    \/ \E h \in 1..Len(handlers) : JobStart(h)
    \/ \E h \in 1..Len(handlers) : JobFinish(h)
    \/ \E t \in TaskIds, status \in TaskStatus : UpdateTaskStatus(t, status)
    \/ \E t \in TaskIds, success \in BOOLEAN : CompleteTask(t, success)
    \/ \E t \in TaskIds : CancelTask(t)

SpecTasks == InitTasks /\ [][NextTasks]_vars

\* a document is created by this step
Created(t) == ~tasks[t].exists /\ tasks'[t].exists

\* C26: the task manager enforces its concurrency limit: after any sequence and
\* any interleaving of create_task, create_task_from_request, start_task,
\* start_job, update_task_status, complete_task and cancel_task the number of
\* tasks whose status is active or processing never exceeds
\* max_concurrent_tasks, and a task created when the limit is reached starts
\* as pending.
C26_ActiveTasksWithinLimit ==
    /\ [](_count_active_from_fs(tasks) <= max_concurrent_tasks)
    /\ [][\A t \in TaskIds :
             (Created(t) /\ _count_active_from_fs(tasks) >= max_concurrent_tasks)
                 => tasks'[t].status = "pending"]_vars

----------------------------------------------------------------------------
(* start_job (app/core/job_manager.py), one read or write of the task
   document at a time *)

\* a start_job call: the write it has reached, the document it has loaded for
\* that write, and the files of the task_doc it read at its start
Job(t) == [task_id |-> t, pc |-> "get_task", loaded |-> FALSE, doc |-> NoDoc, files |-> FALSE]

\* the writes of start_job, in the order of the code: update_task_status
\* (PROCESSING), an update_section of the steps, update_section with the
\* result, update_task_status (COMPLETED), and the write of _fail
Writes == {"processing", "step_section", "result_section", "completed", "failed"}

\* what a write changes in the document it loaded
Written(write, doc) ==
    CASE write = "processing" -> WithStatus(doc, "processing", {})
      [] write = "step_section" -> doc
      [] write = "result_section" -> WithSectionResult(doc)
      [] write = "completed" -> WithStatus(doc, "completed", {"result"})
      [] write = "failed" -> WithStatus(doc, "failed", {"errors"})

\* where start_job goes after a write: a task with no files fails
AfterWrite(write, files) ==
    CASE write = "processing" -> IF files THEN "step_section" ELSE "failed"
      [] write = "step_section" -> "result_section"
      [] write = "result_section" -> "completed"
      [] write = "completed" -> "returned"
      [] write = "failed" -> "returned"

\* task_doc = tm.get_task(task_id)
GetTask(h) ==
    /\ handlers[h].pc = "get_task"
    /\ handlers' = [handlers EXCEPT ![h].pc = "processing",
                                    ![h].files = tasks[handlers[h].task_id].files]
    /\ UNCHANGED tasks
    /\ ServiceUnchanged

\* _load_task_from_json at the start of update_task_status or update_section
LoadTask(h) ==
    /\ handlers[h].pc \in Writes
    /\ ~handlers[h].loaded
    /\ handlers' = [handlers EXCEPT ![h].loaded = TRUE,
                                    ![h].doc = tasks[handlers[h].task_id]]
    /\ UNCHANGED tasks
    /\ ServiceUnchanged

\* _save_task_to_json at its end: the loaded document, changed, replaces the file
SaveTask(h) ==
    /\ handlers[h].pc \in Writes
    /\ handlers[h].loaded
    /\ tasks' = [tasks EXCEPT ![handlers[h].task_id] = Written(handlers[h].pc, handlers[h].doc)]
    /\ handlers' = [handlers EXCEPT ![h].pc = AfterWrite(handlers[h].pc, handlers[h].files),
                                    ![h].loaded = FALSE,
                                    ![h].doc = NoDoc]
    /\ ServiceUnchanged

\* a step between the files check and the result raises: except Exception
\* calls _fail
StepRaises(h) ==
    /\ handlers[h].pc = "step_section"
    /\ ~handlers[h].loaded
    /\ handlers' = [handlers EXCEPT ![h].pc = "failed"]
    /\ UNCHANGED tasks
    /\ ServiceUnchanged

\* one task whose document exists, with or without files, and the start_job
\* calls the endpoints have handed to the thread pool for it
InitJob ==
    /\ FreshLocals
    /\ other_call = NoCall
    /\ text = <<>>
    /\ enable_chunking = FALSE
    /\ chunking_strategy_value = ""
    /\ chunk_size = 1
    /\ chunk_overlap = 0
    /\ chunking_config = NoConfig
    /\ segments = <<>>
    /\ loop_start = 0
    /\ \E status \in {"active", "pending"}, files \in BOOLEAN, result \in BOOLEAN :
           tasks = [t \in QueueTaskIds |->
                       [NoDoc EXCEPT !.exists = TRUE, !.status = status, !.files = files,
                                     !.result = result, !.process_json_result = result]]
    /\ \E n \in 1..MaxConcurrentJobs : handlers = [h \in 1..n |-> Job("t1")]
    /\ _queue_lock = [locked |-> FALSE, _waiters |-> <<>>]
    /\ started = <<>>

NextJob ==
    \/ \E h \in 1..Len(handlers) : GetTask(h)
    \/ \E h \in 1..Len(handlers) : LoadTask(h)
    \/ \E h \in 1..Len(handlers) : SaveTask(h)
    \/ \E h \in 1..Len(handlers) : StepRaises(h)

SpecJob == InitJob /\ [][NextJob]_vars

AllReturned == \A h \in 1..Len(handlers) : handlers[h].pc = "returned"

\* C27: for a task whose JSON document exists, start_job ends with the task in
\* a terminal status: completed with the result payload stored at the top level
\* and in the process_json section, or failed with an error message, failed in
\* particular when the task has no files; the task is not left in processing
\* once the start_job calls on it have returned.
C27_StartJobEndsTerminal ==
    AllReturned =>
        LET doc == tasks["t1"]
        IN  /\ doc.status \in {"completed", "failed"}
            /\ doc.status = "completed" => doc.result /\ doc.process_json_result
            /\ doc.status = "failed" => doc.errors
            /\ ~doc.files => doc.status = "failed"

\* the same for a task on which one start_job call runs at a time
C27_SingleJobEndsTerminal == Len(handlers) = 1 => C27_StartJobEndsTerminal

====
